---- MODULE Spec2Model ----
(***************************************************************************)
(* A model of the git-protocol crate: the pkt-line framer, the pack codec  *)
(* (object headers, pack files, delta application) and the reference       *)
(* handler.  Byte strings are sequences of integers in 0..255; positions   *)
(* named pos are 0-based as in the source, sequences are 1-based.          *)
(***************************************************************************)
EXTENDS Integers, Sequences, FiniteSets, TLC

VARIABLES
    pktLines,     \* the caller's lines
    pktFill,      \* filler bytes appended to the last of them
    pktData,      \* the byte buffer handed to parse_pkt_line
    pktCut,       \* the number of bytes of the buffer the transport delivered
    pktResult,    \* the Result<Vec<String>> of parse_pkt_line
    pktPc         \* "input" | "created" | "received" | "parsed" | "idle"

pktVars == <<pktLines, pktFill, pktData, pktCut, pktResult, pktPc>>

VARIABLES
    hdrType,      \* the type id handed to write_type_and_size
    hdrSize,      \* the size handed to write_type_and_size
    hdrTail,      \* the bytes that follow the header in the buffer
    hdrBytes,     \* the buffer: the emitted header, then hdrTail
    hdrParsed,    \* the IResult of parse_type_and_size
    hdrPc         \* "input" | "written" | "parsed" | "idle"

hdrVars == <<hdrType, hdrSize, hdrTail, hdrBytes, hdrParsed, hdrPc>>

VARIABLES
    deltaBase,    \* the base object handed to apply_delta
    deltaBytes,   \* the delta handed to apply_delta
    deltaChecks,  \* whether the build checks arithmetic overflow
    deltaResult,  \* how apply_delta ended: a Result, or a panic
    deltaPc       \* "input" | "applied" | "idle"

deltaVars == <<deltaBase, deltaBytes, deltaChecks, deltaResult, deltaPc>>

VARIABLES
    refs,         \* RefHandler.refs: a map from ref name to GitRef
    refResult     \* the last operation on the handler and what it returned

refVars == <<refs, refResult>>

VARIABLES
    packObjects,  \* the GitObjects handed to create_pack
    packData,     \* the pack handed to parse_pack
    packChanged,  \* the 1-based position of the byte changed in transit, or 0
    packResult,   \* the Result<Vec<PackEntry>> of the parser that ran
    packStored,   \* PackParser.objects, the map parse_pack_file_simple fills
    packPc        \* "input" | "created" | "parsed" | "parsed_simple" | "idle"

packVars == <<packObjects, packData, packChanged, packResult, packStored, packPc>>

VARIABLES
    advRefs,      \* the (name, hash) pairs handed to create_ref_advertisement
    advCaps,      \* the capabilities handed to create_ref_advertisement
    advData,      \* the advertisement bytes
    advLines,     \* the Result of parse_pkt_line on the advertisement
    advParsed,    \* the (ref part, capabilities) of parse_capabilities
    advPc         \* "input" | "created" | "parsed" | "idle"

advVars == <<advRefs, advCaps, advData, advLines, advParsed, advPc>>

VARIABLES
    xchgTransport,  \* "http" | "ssh" | "none"
    xchgService,    \* "git-upload-pack" | "git-receive-pack" | "none"
    xchgRepo,       \* the repository lookup: "found" | "missing" | "error"
    xchgRefs,       \* the (name, target) pairs the repository service returns
    xchgRequest,    \* what the client sends: pkt-lines and the pack after them
    xchgCommand,    \* current_command of the SSH session
    xchgLog,        \* the last parse result handle_pack_data logged
    xchgSent,       \* the responses and channel data sent so far
    xchgDone        \* the POST has been answered or the channel closed

xchgVars == <<xchgTransport, xchgService, xchgRepo, xchgRefs, xchgRequest,
              xchgCommand, xchgLog, xchgSent, xchgDone>>

VARIABLES
    objInput,     \* the arguments: an object type, a content, a Commit, a Tree
    objClock,     \* the wall clock Utc::now() reads, in seconds
    objResult,    \* the last operation and the Result<GitObject> it returned
    objCommits    \* the Commits parse_commit returned for the commit's bytes

objVars == <<objInput, objClock, objResult, objCommits>>

VARIABLES
    gitRefRows,     \* the rows of table git_ref
    storeCalls      \* per task: the storage call it is in and where it stands

storeVars == <<gitRefRows, storeCalls>>

VARIABLES
    branchRefs,     \* RefHandler.refs of the handler asked for its default branch
    branchResult    \* what get_default_branch returned

branchVars == <<branchRefs, branchResult>>

VARIABLES
    walkRefs,       \* RefHandler.refs during one resolve_ref call
    walkName,       \* the name the call was given
    walkCurrent,    \* resolve_ref's local `current`
    walkVisited,    \* resolve_ref's local `visited`
    walkIterations, \* the iterations of its loop that have begun
    walkResult      \* the Result it returned, once it has

walkVars == <<walkRefs, walkName, walkCurrent, walkVisited, walkIterations, walkResult>>

vars == <<pktVars, hdrVars, deltaVars, refVars, packVars, advVars, xchgVars, objVars, storeVars, branchVars, walkVars>>

NotPkt == <<hdrVars, deltaVars, refVars, packVars, advVars, xchgVars, objVars, storeVars, branchVars, walkVars>>

NotHdr == <<pktVars, deltaVars, refVars, packVars, advVars, xchgVars, objVars, storeVars, branchVars, walkVars>>

NotDelta == <<pktVars, hdrVars, refVars, packVars, advVars, xchgVars, objVars, storeVars, branchVars, walkVars>>

NotRef == <<pktVars, hdrVars, deltaVars, packVars, advVars, xchgVars, objVars, storeVars, branchVars, walkVars>>

NotPack == <<pktVars, hdrVars, deltaVars, refVars, advVars, xchgVars, objVars, storeVars, branchVars, walkVars>>

NotAdv == <<pktVars, hdrVars, deltaVars, refVars, packVars, xchgVars, objVars, storeVars, branchVars, walkVars>>

NotXchg == <<pktVars, hdrVars, deltaVars, refVars, packVars, advVars, objVars, storeVars, branchVars, walkVars>>

NotObj == <<pktVars, hdrVars, deltaVars, refVars, packVars, advVars, xchgVars, storeVars, branchVars, walkVars>>

NotStore == <<pktVars, hdrVars, deltaVars, refVars, packVars, advVars, xchgVars, objVars, branchVars, walkVars>>

NotBranch == <<pktVars, hdrVars, deltaVars, refVars, packVars, advVars, xchgVars, objVars, storeVars, walkVars>>

NotWalk == <<pktVars, hdrVars, deltaVars, refVars, packVars, advVars, xchgVars, objVars, storeVars, branchVars>>

-----------------------------------------------------------------------------
(* Bytes and bit operations                                                *)

Byte == 0..255

RECURSIVE BitAnd(_, _)
BitAnd(a, b) ==
    IF a = 0 \/ b = 0 THEN 0
    ELSE (a % 2) * (b % 2) + 2 * BitAnd(a \div 2, b \div 2)

RECURSIVE BitOr(_, _)
BitOr(a, b) ==
    IF a = 0 THEN b
    ELSE IF b = 0 THEN a
    ELSE (IF a % 2 = 1 \/ b % 2 = 1 THEN 1 ELSE 0) + 2 * BitOr(a \div 2, b \div 2)

Shl(a, n) == a * (2 ^ n)

Shr(a, n) == a \div (2 ^ n)

\* ASCII codes used by the wire formats
NL == 10
PLUS == 43
CH0 == 48
CH9 == 57
UpA == 65
UpF == 70
LoA == 97
LoF == 102

\* The set of all sequences over S of length at most n.
SeqsUpTo(S, n) == UNION {[1..k -> S] : k \in 0..n}

-----------------------------------------------------------------------------
(* Text conversions used by the pkt-line framer                            *)

\* str::from_utf8 accepts exactly the well-formed UTF-8 byte strings.
RECURSIVE Utf8From(_, _)
Utf8From(s, i) ==
    LET n == Len(s)
        Cont(j) == j <= n /\ s[j] >= 128 /\ s[j] <= 191
    IN  IF i > n THEN TRUE
        ELSE IF s[i] < 128 THEN Utf8From(s, i + 1)
        ELSE IF s[i] >= 194 /\ s[i] <= 223 THEN Cont(i + 1) /\ Utf8From(s, i + 2)
        ELSE IF s[i] = 224
            THEN i + 1 <= n /\ s[i + 1] >= 160 /\ s[i + 1] <= 191 /\ Cont(i + 2)
                 /\ Utf8From(s, i + 3)
        ELSE IF s[i] = 237
            THEN i + 1 <= n /\ s[i + 1] >= 128 /\ s[i + 1] <= 159 /\ Cont(i + 2)
                 /\ Utf8From(s, i + 3)
        ELSE IF s[i] >= 225 /\ s[i] <= 239
            THEN Cont(i + 1) /\ Cont(i + 2) /\ Utf8From(s, i + 3)
        ELSE IF s[i] = 240
            THEN i + 1 <= n /\ s[i + 1] >= 144 /\ s[i + 1] <= 191 /\ Cont(i + 2)
                 /\ Cont(i + 3) /\ Utf8From(s, i + 4)
        ELSE IF s[i] >= 241 /\ s[i] <= 243
            THEN Cont(i + 1) /\ Cont(i + 2) /\ Cont(i + 3) /\ Utf8From(s, i + 4)
        ELSE IF s[i] = 244
            THEN i + 1 <= n /\ s[i + 1] >= 128 /\ s[i + 1] <= 143 /\ Cont(i + 2)
                 /\ Cont(i + 3) /\ Utf8From(s, i + 4)
        ELSE FALSE

IsUtf8(s) == (\A i \in 1..Len(s) : s[i] < 128) \/ Utf8From(s, 1)

IsHexDigit(c) ==
    \/ c >= CH0 /\ c <= CH9
    \/ c >= LoA /\ c <= LoF
    \/ c >= UpA /\ c <= UpF

HexDigitValue(c) ==
    IF c >= CH0 /\ c <= CH9 THEN c - CH0
    ELSE IF c >= LoA /\ c <= LoF THEN c - LoA + 10
    ELSE c - UpA + 10

\* u16::from_str_radix(s, 16) on a 4-byte string: an optional leading '+',
\* then at least one hex digit and nothing else (4 digits never overflow u16).
HexDigitsOf(s) == IF Len(s) > 0 /\ s[1] = PLUS THEN Tail(s) ELSE s

IsHexU16(s) ==
    /\ Len(HexDigitsOf(s)) > 0
    /\ \A i \in 1..Len(HexDigitsOf(s)) : IsHexDigit(HexDigitsOf(s)[i])

RECURSIVE HexValue(_)
HexValue(s) ==
    IF Len(s) = 0 THEN 0
    ELSE IF s[1] = PLUS THEN HexValue(Tail(s))
    ELSE HexValue(SubSeq(s, 1, Len(s) - 1)) * 16 + HexDigitValue(s[Len(s)])

HexChar(d) == IF d < 10 THEN CH0 + d ELSE LoA + (d - 10)

RECURSIVE HexDigits(_)
HexDigits(n) ==
    IF n < 16 THEN <<HexChar(n)>>
    ELSE Append(HexDigits(n \div 16), HexChar(n % 16))

RECURSIVE ZeroPad(_, _)
ZeroPad(s, width) == IF Len(s) >= width THEN s ELSE ZeroPad(<<CH0>> \o s, width)

\* format!("{:04x}", n): lower-case hex, zero-padded to a MINIMUM width of 4.
FormatHex04(n) == ZeroPad(HexDigits(n), 4)

\* str::trim_end_matches('\n'): every trailing newline is removed.
RECURSIVE TrimEndNewlines(_)
TrimEndNewlines(s) ==
    IF Len(s) > 0 /\ s[Len(s)] = NL THEN TrimEndNewlines(SubSeq(s, 1, Len(s) - 1))
    ELSE s

-----------------------------------------------------------------------------
(* ProtocolHandler: pkt-line framing                                       *)

PktOk(lines) == [ok |-> TRUE, lines |-> lines, err |-> "none"]

PktErr(e) == [ok |-> FALSE, lines |-> <<>>, err |-> e]

FlushPkt == <<CH0, CH0, CH0, CH0>>

\* One packet of create_pkt_line: the length prefix, the line, a newline.
\* A variant of the encoder whose length prefix leaves the added newline
\* out of the count.
PktOfLine_NewlineNotCounted(line) == FormatHex04(Len(line) + 4) \o line \o <<NL>>

PktOfLine(line) == FormatHex04(Len(line) + 1 + 4) \o line \o <<NL>>

RECURSIVE PktsOfLines(_)
PktsOfLines(lines) ==
    IF Len(lines) = 0 THEN <<>>
    ELSE PktsOfLines(SubSeq(lines, 1, Len(lines) - 1)) \o PktOfLine(lines[Len(lines)])

create_pkt_line(lines) == PktsOfLines(lines) \o FlushPkt

\* A variant of the loop that stops at a packet reaching beyond the data and
\* returns the lines read before it.
RECURSIVE PktLoop_StopsAtOverrun(_, _, _)
PktLoop_StopsAtOverrun(data, pos, lines) ==
    IF pos + 4 > Len(data) THEN PktOk(lines)
    ELSE LET length_str == SubSeq(data, pos + 1, pos + 4) IN
        IF ~IsUtf8(length_str) THEN PktErr("Invalid UTF-8 in length prefix")
        ELSE IF ~IsHexU16(length_str) THEN PktErr("Invalid hex length")
        ELSE LET length == HexValue(length_str) IN
            IF length = 0 THEN PktOk(lines)
            ELSE IF length < 4 THEN PktErr("Invalid packet length")
            ELSE IF pos + length > Len(data) THEN PktOk(lines)
            ELSE LET content == SubSeq(data, pos + 5, pos + length) IN
                IF ~IsUtf8(content) THEN PktErr("Invalid UTF-8 in packet content")
                ELSE PktLoop_StopsAtOverrun(data, pos + length,
                                            Append(lines, TrimEndNewlines(content)))

\* A variant of the loop that steps over a flush packet and reads on.
RECURSIVE PktLoop_ReadsPastFlush(_, _, _)
PktLoop_ReadsPastFlush(data, pos, lines) ==
    IF ~(pos < Len(data)) THEN PktOk(lines)
    ELSE IF pos + 4 > Len(data) THEN PktOk(lines)
    ELSE LET length_str == SubSeq(data, pos + 1, pos + 4) IN
        IF ~IsUtf8(length_str) THEN PktErr("Invalid UTF-8 in length prefix")
        ELSE IF ~IsHexU16(length_str) THEN PktErr("Invalid hex length")
        ELSE LET length == HexValue(length_str) IN
            IF length = 0 THEN PktLoop_ReadsPastFlush(data, pos + 4, lines)
            ELSE IF length < 4 THEN PktErr("Invalid packet length")
            ELSE IF pos + length > Len(data) THEN PktErr("Packet extends beyond data")
            ELSE LET content == SubSeq(data, pos + 5, pos + length) IN
                IF ~IsUtf8(content) THEN PktErr("Invalid UTF-8 in packet content")
                ELSE PktLoop_ReadsPastFlush(data, pos + length,
                                            Append(lines, TrimEndNewlines(content)))

\* The loop of parse_pkt_line from position pos with the lines read so far.
RECURSIVE PktLoop(_, _, _)
PktLoop(data, pos, lines) ==
    IF ~(pos < Len(data)) THEN PktOk(lines)
    ELSE IF pos + 4 > Len(data) THEN PktOk(lines)
    ELSE LET length_str == SubSeq(data, pos + 1, pos + 4) IN
        IF ~IsUtf8(length_str) THEN PktErr("Invalid UTF-8 in length prefix")
        ELSE IF ~IsHexU16(length_str) THEN PktErr("Invalid hex length")
        ELSE LET length == HexValue(length_str) IN
            IF length = 0 THEN PktOk(lines)
            ELSE IF length < 4 THEN PktErr("Invalid packet length")
            ELSE LET content_length == length - 4 IN
                IF pos + 4 + content_length > Len(data)
                THEN PktErr("Packet extends beyond data")
                ELSE LET content == SubSeq(data, pos + 5, pos + 4 + content_length) IN
                    IF ~IsUtf8(content) THEN PktErr("Invalid UTF-8 in packet content")
                    ELSE PktLoop(data, pos + 4 + content_length,
                                 Append(lines, TrimEndNewlines(content)))

parse_pkt_line(data) == PktLoop(data, 0, <<>>)

-----------------------------------------------------------------------------
(* The pkt-line exchange: a caller frames lines, the transport delivers    *)
(* the buffer (all of it, or a prefix cut near a packet boundary), and the *)
(* receiver parses what arrived.  The caller's lines are pktLines with     *)
(* pktFill filler bytes appended to the last one, so that lines at the     *)
(* limit of the 4-hex-digit length prefix are inputs too.                  *)

MaxLineLen == 2
MaxLines == 2
MaxCutExtra == 5

\* The largest value of a 4-hex-digit length prefix (u16).
U16Max == 65535

LineAlphabet == {LoA, CH0}

\* Lines that end in one or two newlines, or hold one inside.
NewlineLines == {<<NL>>, <<LoA, NL>>, <<LoA, NL, NL>>, <<NL, LoA>>}

Lines == SeqsUpTo(LineAlphabet, MaxLineLen) \cup NewlineLines

PktInputs == SeqsUpTo(Lines, MaxLines)

\* Filler lengths: the longest line whose packet length still fits 4 hex
\* digits, and the shortest one whose packet length does not.
LongFills == {U16Max - 5, U16Max - 4}

Filler(n) == [i \in 1..n |-> LoA]

\* The lines handed to create_pkt_line.
InputLines(lines, fill) ==
    [i \in 1..Len(lines) |->
        IF i = Len(lines) THEN lines[i] \o Filler(fill) ELSE lines[i]]

NoResult == [ok |-> FALSE, lines |-> <<>>, err |-> "not run"]

\* Bytes that follow the flush packet in the buffer: a whole packet "a"
\* and a flush, a packet reaching beyond the data, a length below 4, a
\* length that is no hex, a byte that is no UTF-8, a lone byte.
AfterFlush ==
    {<<CH0, CH0, CH0, CH0 + 5, LoA, CH0, CH0, CH0, CH0>>,
     <<LoF, LoF, LoF, LoF, LoA>>,
     <<CH0, CH0, CH0, CH0 + 1>>,
     <<122, 122, 122, 122>>,
     <<255, 255, 255, 255>>,
     <<LoA>>}

\* Length of the packets of the first j lines.
Boundary(lines, j) == Len(PktsOfLines(SubSeq(lines, 1, j)))

CutPoints(lines, data) ==
    {k \in {Boundary(lines, j) + r : j \in 0..Len(lines), r \in 0..MaxCutExtra} :
        k < Len(data)}

IdlePkt ==
    /\ pktLines = <<>>
    /\ pktFill = 0
    /\ pktData = <<>>
    /\ pktCut = 0
    /\ pktResult = NoResult
    /\ pktPc = "idle"

StartPkt ==
    /\ pktLines \in PktInputs
    /\ pktFill = 0
    /\ pktData = <<>>
    /\ pktCut = 0
    /\ pktResult = NoResult
    /\ pktPc = "input"

\* The caller makes its single empty line a line at the limit of the prefix.
ChooseLongLine ==
    /\ pktPc = "input"
    /\ pktLines = <<<<>>>>
    /\ pktFill = 0
    /\ pktFill' \in LongFills
    /\ UNCHANGED <<pktLines, pktData, pktCut, pktResult, pktPc>>
    /\ UNCHANGED NotPkt

CreatePktLine ==
    /\ pktPc = "input"
    /\ pktData' = create_pkt_line(InputLines(pktLines, pktFill))
    /\ pktCut' = Len(pktData')
    /\ pktPc' = "created"
    /\ UNCHANGED <<pktLines, pktFill, pktResult>>
    /\ UNCHANGED NotPkt

\* The transport hands the receiver only the first k bytes of the buffer.
Truncate ==
    /\ pktPc = "created"
    /\ \E k \in CutPoints(InputLines(pktLines, pktFill), pktData) :
        /\ pktData' = SubSeq(pktData, 1, k)
        /\ pktCut' = k
    /\ pktPc' = "received"
    /\ UNCHANGED <<pktLines, pktFill, pktResult>>
    /\ UNCHANGED NotPkt

\* The buffer holds more bytes after the flush packet.
MoreAfterFlush ==
    /\ pktPc = "created"
    /\ pktFill = 0
    /\ \E tail \in AfterFlush :
        /\ pktData' = pktData \o tail
        /\ pktCut' = Len(pktData')
    /\ pktPc' = "received"
    /\ UNCHANGED <<pktLines, pktFill, pktResult>>
    /\ UNCHANGED NotPkt

ParsePktLine ==
    /\ pktPc \in {"created", "received"}
    /\ pktResult' = parse_pkt_line(pktData)
    /\ pktPc' = "parsed"
    /\ UNCHANGED <<pktLines, pktFill, pktData, pktCut>>
    /\ UNCHANGED NotPkt

NextPkt == ChooseLongLine \/ CreatePktLine \/ Truncate \/ MoreAfterFlush \/ ParsePktLine

-----------------------------------------------------------------------------
(* PackParser: the per-object type and size header                         *)

\* A variant of the size bytes that never sets the continuation bit.
RECURSIVE SizeBytes_NoContinuation(_)
SizeBytes_NoContinuation(encoded_size) ==
    IF encoded_size = 0 THEN <<>>
    ELSE <<BitAnd(encoded_size, 127)>> \o SizeBytes_NoContinuation(Shr(encoded_size, 7))

\* The bytes after the first one: 7 size bits each, low bits first, the
\* continuation bit set on all but the last.
RECURSIVE SizeBytes(_)
SizeBytes(encoded_size) ==
    IF encoded_size = 0 THEN <<>>
    ELSE LET byte == BitAnd(encoded_size, 127)
             rest == Shr(encoded_size, 7)
         IN  <<IF rest > 0 THEN BitOr(byte, 128) ELSE byte>> \o SizeBytes(rest)

\* A variant that leaves the continuation bit of the first byte clear.
write_type_and_size_FirstByteClear(type_id, size) ==
    LET first_byte == BitOr(Shl(type_id, 4) % 256, BitAnd(size, 15))
        encoded_size == Shr(size, 4)
    IN  <<first_byte>> \o SizeBytes(encoded_size)

\* write_type_and_size: the bytes pushed to the buffer (type_id is a u8).
write_type_and_size(type_id, size) ==
    LET first_byte == BitOr(Shl(type_id, 4) % 256, BitAnd(size, 15))
        encoded_size == Shr(size, 4)
    IN  IF encoded_size = 0 THEN <<first_byte>>
        ELSE <<BitOr(first_byte, 128)>> \o SizeBytes(encoded_size)

HdrOk(t, sz, rest) == [ok |-> TRUE, type |-> t, size |-> sz, rest |-> rest, err |-> "none"]

HdrErr(e) == [ok |-> FALSE, type |-> 0, size |-> 0, rest |-> <<>>, err |-> e]

\* The while loop of parse_type_and_size: one size byte per iteration.  The
\* model follows it through three size bytes (sizes below 2^25); a header
\* with more size bytes than that is outside the integers of the model and
\* is never produced by the buffers modelled here.
RECURSIVE SizeLoop(_, _, _, _)
SizeLoop(input, obj_type, size, shift) ==
    IF Len(input) = 0 THEN HdrErr("Eof")
    ELSE IF shift >= 25 THEN HdrErr("size beyond the model")
    ELSE LET size_byte == Head(input)
             size2 == BitOr(size, Shl(BitAnd(size_byte, 127), shift))
         IN  IF BitAnd(size_byte, 128) = 0 THEN HdrOk(obj_type, size2, Tail(input))
             ELSE SizeLoop(Tail(input), obj_type, size2, shift + 7)

parse_type_and_size(input) ==
    IF Len(input) = 0 THEN HdrErr("Eof")
    ELSE LET first_byte == Head(input)
             obj_type == BitAnd(Shr(first_byte, 4), 7)
             size == BitAnd(first_byte, 15)
         IN  IF BitAnd(first_byte, 128) # 0
             THEN SizeLoop(Tail(input), obj_type, size, 4)
             ELSE HdrOk(obj_type, size, Tail(input))

-----------------------------------------------------------------------------
(* Writing and reading back one header                                     *)

MaxSmallSize == 20
MaxTailLen == 1

\* The sizes of the header symmetry property: the boundaries of 4, 4+7 and
\* 4+7+7 size bits.
SymmetrySizes == {0, 15, 16, 255, 256, 65535, 65536}

HdrTypeIds == 1..7

HdrSizes == SymmetrySizes \cup (0..MaxSmallSize)

\* What may follow a header: a byte with and one without the high bit.
HdrTails == SeqsUpTo({120, 255}, MaxTailLen)

IdleHdr ==
    /\ hdrType = 0
    /\ hdrSize = 0
    /\ hdrTail = <<>>
    /\ hdrBytes = <<>>
    /\ hdrParsed = HdrErr("not run")
    /\ hdrPc = "idle"

StartHdr ==
    /\ hdrType \in HdrTypeIds
    /\ hdrSize \in HdrSizes
    /\ hdrTail \in HdrTails
    /\ hdrBytes = <<>>
    /\ hdrParsed = HdrErr("not run")
    /\ hdrPc = "input"

WriteTypeAndSize ==
    /\ hdrPc = "input"
    /\ hdrBytes' = write_type_and_size(hdrType, hdrSize) \o hdrTail
    /\ hdrPc' = "written"
    /\ UNCHANGED <<hdrType, hdrSize, hdrTail, hdrParsed>>
    /\ UNCHANGED NotHdr

ParseTypeAndSize ==
    /\ hdrPc = "written"
    /\ hdrParsed' = parse_type_and_size(hdrBytes)
    /\ hdrPc' = "parsed"
    /\ UNCHANGED <<hdrType, hdrSize, hdrTail, hdrBytes>>
    /\ UNCHANGED NotHdr

NextHdr == WriteTypeAndSize \/ ParseTypeAndSize

-----------------------------------------------------------------------------
(* PackParser: delta application                                           *)

VarintOk(v, big, n) == [ok |-> TRUE, value |-> v, big |-> big, consumed |-> n]

VarintErr == [ok |-> FALSE, value |-> 0, big |-> FALSE, consumed |-> 0]

\* The for loop of read_varint at byte i (1-based).  A value with bits at
\* or above 2^28 is reported as big: it exceeds every buffer length of the
\* model, which is all apply_delta uses it for.
RECURSIVE VarintLoop(_, _, _, _, _)
VarintLoop(data, i, value, shift, big) ==
    IF i > Len(data) THEN VarintOk(value, big, Len(data))
    ELSE LET byte == data[i]
             low == BitAnd(byte, 127)
             over == shift >= 28 /\ low # 0
             value2 == IF shift >= 28 THEN value ELSE BitOr(value, Shl(low, shift))
         IN  IF BitAnd(byte, 128) = 0 THEN VarintOk(value2, big \/ over, i)
             ELSE IF i > 8 THEN VarintErr
             ELSE VarintLoop(data, i + 1, value2, shift + 7, big \/ over)

read_varint(data) == VarintLoop(data, 1, 0, 0, FALSE)

DeltaOk(r) == [kind |-> "ok", data |-> r, err |-> "none"]

DeltaErr(e) == [kind |-> "err", data |-> <<>>, err |-> e]

DeltaPanic(e) == [kind |-> "panic", data |-> <<>>, err |-> e]

\* The offset loop of a copy instruction (for i in 0..4), from bit i with
\* the cursor at delta_pos: the low 24 bits and the top byte of the u32
\* offset, and the cursor after the bytes read.  ok is FALSE when a byte is
\* indexed past the end of the delta.
RECURSIVE CopyOffset(_, _, _, _, _, _)
CopyOffset(instruction, delta, delta_pos, i, low, top) ==
    IF i = 4 THEN [ok |-> TRUE, low |-> low, top |-> top, pos |-> delta_pos]
    ELSE IF BitAnd(instruction, Shl(1, i)) = 0
        THEN CopyOffset(instruction, delta, delta_pos, i + 1, low, top)
    ELSE IF delta_pos >= Len(delta)
        THEN [ok |-> FALSE, low |-> low, top |-> top, pos |-> delta_pos]
    ELSE IF i = 3
        THEN CopyOffset(instruction, delta, delta_pos + 1, i + 1, low, delta[delta_pos + 1])
    ELSE CopyOffset(instruction, delta, delta_pos + 1, i + 1,
                    BitOr(low, Shl(delta[delta_pos + 1], i * 8)), top)

\* The size loop of a copy instruction (for i in 0..3): every present size
\* byte is read at the same delta_pos, which the loop does not advance.
RECURSIVE CopySize(_, _, _, _, _)
CopySize(instruction, delta, delta_pos, i, size) ==
    IF i = 3 THEN [ok |-> TRUE, size |-> size]
    ELSE IF BitAnd(instruction, Shl(1, i + 4)) = 0
        THEN CopySize(instruction, delta, delta_pos, i + 1, size)
    ELSE IF delta_pos >= Len(delta) THEN [ok |-> FALSE, size |-> size]
    ELSE CopySize(instruction, delta, delta_pos, i + 1,
                  BitOr(size, Shl(delta[delta_pos + 1], i * 8)))

\* The instruction loop of apply_delta.  The u32 offset is top * 2^24 + low;
\* offset + size overflows u32 exactly when top = 255 and low + size >= 2^24,
\* which panics in a build with overflow checks and wraps in one without.
RECURSIVE DeltaLoop(_, _, _, _, _)
DeltaLoop(base, delta, delta_pos, result, overflow_checks) ==
    IF ~(delta_pos < Len(delta)) THEN DeltaOk(result)
    ELSE LET instruction == delta[delta_pos + 1]
             pos1 == delta_pos + 1
         IN
         IF BitAnd(instruction, 128) # 0 THEN
            LET off == CopyOffset(instruction, delta, pos1, 0, 0, 0)
                sz == CopySize(instruction, delta, off.pos, 0, 0)
                size == IF sz.size = 0 THEN 65536 ELSE sz.size
                sum == off.low + size
                overflow == off.top = 255 /\ sum >= 2 ^ 24
            IN  IF ~off.ok \/ ~sz.ok THEN DeltaPanic("index out of bounds")
                ELSE IF overflow /\ overflow_checks
                    THEN DeltaPanic("attempt to add with overflow")
                ELSE IF overflow /\ sum - 2 ^ 24 <= Len(base)
                    THEN DeltaPanic("slice index starts after its end")
                ELSE IF ~overflow /\ off.top = 0 /\ sum <= Len(base)
                    THEN DeltaLoop(base, delta, off.pos,
                                   result \o SubSeq(base, off.low + 1, sum),
                                   overflow_checks)
                ELSE DeltaLoop(base, delta, off.pos, result, overflow_checks)
         ELSE IF instruction # 0 THEN
            LET size == instruction IN
                IF pos1 + size <= Len(delta)
                THEN DeltaLoop(base, delta, pos1 + size,
                               result \o SubSeq(delta, pos1 + 1, pos1 + size),
                               overflow_checks)
                ELSE DeltaLoop(base, delta, pos1, result, overflow_checks)
         ELSE DeltaLoop(base, delta, pos1, result, overflow_checks)

\* A variant of the final check that only rejects results longer than
\* result_size.
DeltaSizeCheck_AtMost(run, result_size) ==
    IF run.kind # "ok" THEN run
    ELSE IF ~result_size.big /\ Len(run.data) > result_size.value
        THEN DeltaErr("Delta application resulted in wrong size")
    ELSE DeltaOk(run.data)

\* The result_size check that ends apply_delta.
DeltaSizeCheck(run, result_size) ==
    IF run.kind # "ok" THEN run
    ELSE IF result_size.big \/ Len(run.data) # result_size.value
        THEN DeltaErr("Delta application resulted in wrong size")
    ELSE DeltaOk(run.data)

apply_delta(base, delta, overflow_checks) ==
    LET base_size == read_varint(delta) IN
    IF ~base_size.ok THEN DeltaErr("Invalid varint encoding")
    ELSE LET rest == SubSeq(delta, base_size.consumed + 1, Len(delta))
             result_size == read_varint(rest)
         IN  IF ~result_size.ok THEN DeltaErr("Invalid varint encoding")
             ELSE DeltaSizeCheck(
                      DeltaLoop(base, delta, base_size.consumed + result_size.consumed,
                                <<>>, overflow_checks),
                      result_size)

-----------------------------------------------------------------------------
(* Applying a delta: deltas are bytes from a peer, so any byte string is   *)
(* an input; the instruction streams of well-formed deltas are among them. *)

MaxDeltaBody == 4
MaxResultSize == 3

\* "hello world", and a two-byte base for the short deltas
HelloWorld == <<104, 101, 108, 108, 111, 32, 119, 111, 114, 108, 100>>

ShortBase == <<120, 121>>

\* Instructions as the delta format defines them, and their encoding with
\* the fewest offset and size bytes (sizes and offsets below 256 here).
Copy(off, size) == [op |-> "copy", off |-> off, size |-> size, lit |-> <<>>]

Insert(lit) == [op |-> "insert", off |-> 0, size |-> Len(lit), lit |-> lit]

EncodeInstr(ins) ==
    IF ins.op = "insert" THEN <<Len(ins.lit)>> \o ins.lit
    ELSE IF ins.off = 0 THEN <<144, ins.size>>
    ELSE <<145, ins.off, ins.size>>

RECURSIVE EncodeInstrs(_)
EncodeInstrs(instrs) ==
    IF Len(instrs) = 0 THEN <<>>
    ELSE EncodeInstr(Head(instrs)) \o EncodeInstrs(Tail(instrs))

EncodeDelta(base, result_size, instrs) ==
    <<Len(base), result_size>> \o EncodeInstrs(instrs)

\* What the instructions denote: base ranges and literals, in order.
RECURSIVE Expand(_, _)
Expand(base, instrs) ==
    IF Len(instrs) = 0 THEN <<>>
    ELSE (IF Head(instrs).op = "insert" THEN Head(instrs).lit
          ELSE SubSeq(base, Head(instrs).off + 1, Head(instrs).off + Head(instrs).size))
         \o Expand(base, Tail(instrs))

\* copy[0,5] + insert(" there") + copy[5,6]
HelloInstrs == <<Copy(0, 5), Insert(<<32, 116, 104, 101, 114, 101>>), Copy(5, 6)>>

\* Well-formed deltas: every copy lies inside the base.
WellFormedDeltas ==
    {[base |-> HelloWorld, instrs |-> HelloInstrs],
     [base |-> HelloWorld, instrs |-> <<Copy(0, 5)>>],
     [base |-> ShortBase, instrs |-> <<Copy(1, 1), Insert(<<1>>)>>],
     [base |-> ShortBase, instrs |-> <<Insert(<<2, 1>>)>>],
     [base |-> ShortBase, instrs |-> <<>>]}

\* Instruction bytes: the invalid 0, inserts of 1 and 2 bytes, and copies
\* with a size byte and with an offset and a size byte.
DeltaAlphabet == {0, 1, 2, 144, 145}

\* A copy whose offset 0xffffffff plus its size 0x10000 overflows u32.
OverflowCopy == <<143, 255, 255, 255, 255>>

DeltaCases ==
    {[base |-> ShortBase, delta |-> <<Len(ShortBase), rs>> \o body] :
        rs \in 0..MaxResultSize, body \in SeqsUpTo(DeltaAlphabet, MaxDeltaBody)}
    \cup {[base |-> w.base, delta |-> EncodeDelta(w.base, Len(Expand(w.base, w.instrs)) - d,
                                                  w.instrs)] :
            w \in WellFormedDeltas, d \in {0, 1}}
    \cup {[base |-> ShortBase, delta |-> d] : d \in SeqsUpTo({2, 129, 143, 255}, MaxResultSize)}
    \cup {[base |-> ShortBase, delta |-> <<Len(ShortBase), rs>> \o OverflowCopy] :
            rs \in 0..MaxResultSize}

IdleDelta ==
    /\ deltaBase = <<>>
    /\ deltaBytes = <<>>
    /\ deltaChecks = FALSE
    /\ deltaResult = DeltaErr("not run")
    /\ deltaPc = "idle"

StartDelta ==
    /\ \E c \in DeltaCases :
        /\ deltaBase = c.base
        /\ deltaBytes = c.delta
    /\ deltaChecks \in BOOLEAN
    /\ deltaResult = DeltaErr("not run")
    /\ deltaPc = "input"

ApplyDelta ==
    /\ deltaPc = "input"
    /\ deltaResult' = apply_delta(deltaBase, deltaBytes, deltaChecks)
    /\ deltaPc' = "applied"
    /\ UNCHANGED <<deltaBase, deltaBytes, deltaChecks>>
    /\ UNCHANGED NotDelta

NextDelta == ApplyDelta

-----------------------------------------------------------------------------
(* RefHandler.  A ref name is the sequence of its "/"-separated segments,  *)
(* so "refs/heads/main" is <<"refs", "heads", "main">>; an object id is a  *)
(* single segment.  The map is a function whose domain is the set of keys. *)

GitRef(name, target, is_symbolic) ==
    [name |-> name, target |-> target, is_symbolic |-> is_symbolic]

\* HashMap::insert
MapInsert(map, key, value) ==
    [k \in (DOMAIN map) \cup {key} |-> IF k = key THEN value ELSE map[k]]

\* HashMap::remove
MapRemove(map, key) == [k \in (DOMAIN map) \ {key} |-> map[k]]

EmptyMap == [k \in {} |-> GitRef(<<>>, <<>>, FALSE)]

RefOk(v) == [ok |-> TRUE, value |-> v, err |-> "none"]

RefErr(e) == [ok |-> FALSE, value |-> <<>>, err |-> e]

add_ref(map, name, target, is_symbolic) ==
    MapInsert(map, name, GitRef(name, target, is_symbolic))

\* update_ref, delete_ref, create_branch, create_tag: the map they leave
\* and the Result they return.
\* A variant of update_ref that adds the ref when the name is missing.
update_ref_AddsMissing(map, name, new_target) ==
    IF name \in DOMAIN map
    THEN [refs |-> [map EXCEPT ![name].target = new_target], result |-> RefOk(<<>>)]
    ELSE [refs |-> MapInsert(map, name, GitRef(name, new_target, FALSE)),
          result |-> RefOk(<<>>)]

update_ref(map, name, new_target) ==
    IF name \in DOMAIN map
    THEN [refs |-> [map EXCEPT ![name].target = new_target], result |-> RefOk(<<>>)]
    ELSE [refs |-> map, result |-> RefErr("not found")]

delete_ref(map, name) ==
    IF name \in DOMAIN map
    THEN [refs |-> MapRemove(map, name), result |-> RefOk(<<>>)]
    ELSE [refs |-> map, result |-> RefErr("not found")]

create_branch(map, name, target) ==
    LET full_name == <<"refs", "heads">> \o name IN
    IF full_name \in DOMAIN map
    THEN [refs |-> map, result |-> RefErr("already exists")]
    ELSE [refs |-> add_ref(map, full_name, target, FALSE), result |-> RefOk(<<>>)]

create_tag(map, name, target) ==
    LET full_name == <<"refs", "tags">> \o name IN
    IF full_name \in DOMAIN map
    THEN [refs |-> map, result |-> RefErr("already exists")]
    ELSE [refs |-> add_ref(map, full_name, target, FALSE), result |-> RefOk(<<>>)]

set_head(map, target, is_symbolic) == add_ref(map, <<"HEAD">>, target, is_symbolic)

\* target.starts_with("refs/")
StartsWithRefs(target) == Len(target) >= 2 /\ target[1] = "refs"

RECURSIVE import_refs(_, _)
import_refs(map, list) ==
    IF Len(list) = 0 THEN map
    ELSE LET name == Head(list)[1]
             target == Head(list)[2]
             is_symbolic == name = <<"HEAD">> /\ StartsWithRefs(target)
         IN  import_refs(add_ref(map, name, target, is_symbolic), Tail(list))

\* A variant of the loop that stops after one lookup.
ResolveLoop_OneLookup(map, current, visited) ==
    IF current \in DOMAIN map THEN RefOk(map[current].target)
    ELSE RefErr("not found")

\* A variant of the loop that answers a revisited name with that name.
RECURSIVE ResolveLoop_RevisitIsTarget(_, _, _)
ResolveLoop_RevisitIsTarget(map, current, visited) ==
    IF current \in visited THEN RefOk(current)
    ELSE IF current \in DOMAIN map
        THEN IF map[current].is_symbolic
             THEN ResolveLoop_RevisitIsTarget(map, map[current].target,
                                              visited \cup {current})
             ELSE RefOk(map[current].target)
    ELSE RefErr("not found")

\* The loop of resolve_ref with the visited-name set.
RECURSIVE ResolveLoop(_, _, _)
ResolveLoop(map, current, visited) ==
    IF current \in visited THEN RefErr("Circular reference detected")
    ELSE IF current \in DOMAIN map
        THEN IF map[current].is_symbolic
             THEN ResolveLoop(map, map[current].target, visited \cup {current})
             ELSE RefOk(map[current].target)
    ELSE RefErr("not found")

resolve_ref(map, name) == ResolveLoop(map, name, {})

\* Option<String>
SomeBranch(branch) == [some |-> TRUE, branch |-> branch]

NoneBranch == [some |-> FALSE, branch |-> <<>>]

\* target.starts_with("refs/heads/")
StartsWithRefsHeads(target) ==
    Len(target) >= 3 /\ target[1] = "refs" /\ target[2] = "heads"

\* target[11..]
AfterRefsHeads(target) == SubSeq(target, 3, Len(target))

\* for branch in ["main", "master", "develop"]
ConventionalBranches == <<<<"main">>, <<"master">>, <<"develop">>>>

RECURSIVE FallbackLoop(_, _)
FallbackLoop(map, i) ==
    IF i > Len(ConventionalBranches) THEN NoneBranch
    ELSE IF (<<"refs", "heads">> \o ConventionalBranches[i]) \in DOMAIN map
        THEN SomeBranch(ConventionalBranches[i])
    ELSE FallbackLoop(map, i + 1)

\* A variant that takes the branch from HEAD without resolving HEAD.
get_default_branch_HeadUnresolved(map) ==
    IF /\ <<"HEAD">> \in DOMAIN map
       /\ map[<<"HEAD">>].is_symbolic
       /\ StartsWithRefsHeads(map[<<"HEAD">>].target)
    THEN SomeBranch(AfterRefsHeads(map[<<"HEAD">>].target))
    ELSE FallbackLoop(map, 1)

get_default_branch(map) ==
    IF /\ resolve_ref(map, <<"HEAD">>).ok
       /\ <<"HEAD">> \in DOMAIN map
       /\ map[<<"HEAD">>].is_symbolic
       /\ StartsWithRefsHeads(map[<<"HEAD">>].target)
    THEN SomeBranch(AfterRefsHeads(map[<<"HEAD">>].target))
    ELSE FallbackLoop(map, 1)

-----------------------------------------------------------------------------
(* The operations a caller applies to one RefHandler                       *)

Head_ == <<"HEAD">>

MainRef == <<"refs", "heads", "main">>

DevRef == <<"refs", "heads", "dev">>

TagRef == <<"refs", "tags", "v1">>

\* a 40-character object id
OidA == <<"aaaaaaaaaaaaaaaaaaaaaaaaaaaaaaaaaaaaaaaa">>

\* Names handed to add_ref, update_ref, delete_ref and resolve_ref, and
\* the targets refs are given.
RefNames == {Head_, MainRef, DevRef}

RefTargets == RefNames \cup {OidA}

BranchNames == {<<"main">>, <<"dev">>}

TagNames == {<<"v1">>}

\* Lists handed to import_refs: empty, one pair, or HEAD followed by a branch.
ImportLists ==
    {<<>>}
    \cup {<<<<n, t>>>> : n \in RefNames, t \in RefTargets}
    \cup {<<<<Head_, t>>, <<MainRef, u>>>> : t \in RefTargets, u \in RefTargets}

Called(op, name, result) == [op |-> op, name |-> name, result |-> result]

IdleRef ==
    /\ refs = EmptyMap
    /\ refResult = Called("idle", <<>>, RefOk(<<>>))

\* RefHandler::new
StartRef ==
    /\ refs = EmptyMap
    /\ refResult = Called("new", <<>>, RefOk(<<>>))

AddRef ==
    /\ \E name \in RefNames, target \in RefTargets, is_symbolic \in BOOLEAN :
        /\ refs' = add_ref(refs, name, target, is_symbolic)
        /\ refResult' = Called("add_ref", name, RefOk(<<>>))
    /\ UNCHANGED NotRef

SetHead ==
    /\ \E target \in RefTargets, is_symbolic \in BOOLEAN :
        /\ refs' = set_head(refs, target, is_symbolic)
        /\ refResult' = Called("set_head", Head_, RefOk(<<>>))
    /\ UNCHANGED NotRef

UpdateRef ==
    /\ \E name \in RefNames \cup {TagRef}, target \in RefTargets :
        /\ refs' = update_ref(refs, name, target).refs
        /\ refResult' = Called("update_ref", name, update_ref(refs, name, target).result)
    /\ UNCHANGED NotRef

DeleteRef ==
    /\ \E name \in RefNames \cup {TagRef} :
        /\ refs' = delete_ref(refs, name).refs
        /\ refResult' = Called("delete_ref", name, delete_ref(refs, name).result)
    /\ UNCHANGED NotRef

CreateBranch ==
    /\ \E name \in BranchNames, target \in RefTargets :
        /\ refs' = create_branch(refs, name, target).refs
        /\ refResult' = Called("create_branch", name, create_branch(refs, name, target).result)
    /\ UNCHANGED NotRef

CreateTag ==
    /\ \E name \in TagNames, target \in RefTargets :
        /\ refs' = create_tag(refs, name, target).refs
        /\ refResult' = Called("create_tag", name, create_tag(refs, name, target).result)
    /\ UNCHANGED NotRef

ImportRefs ==
    /\ \E list \in ImportLists :
        /\ refs' = import_refs(refs, list)
        /\ refResult' = Called("import_refs", <<>>, RefOk(<<>>))
    /\ UNCHANGED NotRef

ResolveRef ==
    /\ \E name \in RefNames \cup {TagRef} :
        refResult' = Called("resolve_ref", name, resolve_ref(refs, name))
    /\ UNCHANGED refs
    /\ UNCHANGED NotRef

NextRef ==
    \/ AddRef \/ SetHead \/ UpdateRef \/ DeleteRef
    \/ CreateBranch \/ CreateTag \/ ImportRefs \/ ResolveRef

-----------------------------------------------------------------------------
(* A RefHandler holding some of HEAD, the conventional branches, a topic   *)
(* branch and a tag is asked for its default branch, and HEAD is set.      *)

MasterRef == <<"refs", "heads", "master">>

DevelopRef == <<"refs", "heads", "develop">>

\* No ref of the name, or one with one of the targets
RefChoices(name, targets) ==
    {<<>>} \cup {<<GitRef(name, t[1], t[2])>> : t \in targets}

\* What HEAD is set to: a branch, a tag or an object id, symbolic or not
HeadTargets ==
    {<<MainRef, TRUE>>, <<MasterRef, TRUE>>, <<DevRef, TRUE>>, <<TagRef, TRUE>>,
     <<OidA, FALSE>>, <<MainRef, FALSE>>}

RECURSIVE AddAll(_, _)
AddAll(map, list) ==
    IF Len(list) = 0 THEN map
    ELSE AddAll(add_ref(map, Head(list).name, Head(list).target,
                        Head(list).is_symbolic),
                Tail(list))

\* The maps add_ref can have built
BranchMaps ==
    {AddAll(EmptyMap, h \o m \o ms \o dp \o dv \o tg) :
        h \in RefChoices(Head_, HeadTargets),
        m \in RefChoices(MainRef, {<<OidA, FALSE>>, <<Head_, TRUE>>}),
        ms \in RefChoices(MasterRef, {<<OidA, FALSE>>}),
        dp \in RefChoices(DevelopRef, {<<OidA, FALSE>>}),
        dv \in RefChoices(DevRef, {<<OidA, FALSE>>, <<MainRef, TRUE>>}),
        tg \in RefChoices(TagRef, {<<OidA, FALSE>>})}

NotAsked == [asked |-> FALSE, value |-> NoneBranch]

IdleBranch ==
    /\ branchRefs = EmptyMap
    /\ branchResult = [asked |-> FALSE, value |-> SomeBranch(<<>>)]

StartBranch ==
    /\ branchRefs \in BranchMaps
    /\ branchResult = NotAsked

GetDefaultBranch ==
    /\ branchResult.value # SomeBranch(<<>>)
    /\ branchResult' = [asked |-> TRUE, value |-> get_default_branch(branchRefs)]
    /\ UNCHANGED branchRefs
    /\ UNCHANGED NotBranch

BranchSetHead ==
    /\ branchResult.value # SomeBranch(<<>>)
    /\ \E t \in HeadTargets :
        branchRefs' = set_head(branchRefs, t[1], t[2])
    /\ branchResult' = NotAsked
    /\ UNCHANGED NotBranch

NextBranch == GetDefaultBranch \/ BranchSetHead

-----------------------------------------------------------------------------
(* resolve_ref, one iteration of its loop at a time                        *)

MaxIterations == 9

Running == [ok |-> FALSE, value |-> <<>>, err |-> "running"]

\* A variant of the loop body without the visited-name check.
ResolveIteration_NoVisitedCheck(map, current, visited) ==
    IF current \in DOMAIN map
    THEN IF map[current].is_symbolic
         THEN [current |-> map[current].target, visited |-> visited \cup {current},
               result |-> Running]
         ELSE [current |-> current, visited |-> visited \cup {current},
               result |-> RefOk(map[current].target)]
    ELSE [current |-> current, visited |-> visited \cup {current},
          result |-> RefErr("not found")]

\* The body of the loop of resolve_ref: the locals it leaves, and the
\* Result when it returns
ResolveIteration(map, current, visited) ==
    IF current \in visited
    THEN [current |-> current, visited |-> visited,
          result |-> RefErr("Circular reference detected")]
    ELSE IF current \in DOMAIN map
        THEN IF map[current].is_symbolic
             THEN [current |-> map[current].target, visited |-> visited \cup {current},
                   result |-> Running]
             ELSE [current |-> current, visited |-> visited \cup {current},
                   result |-> RefOk(map[current].target)]
    ELSE [current |-> current, visited |-> visited \cup {current},
          result |-> RefErr("not found")]

\* Names resolve_ref is called with
WalkNames == {Head_, MainRef, MasterRef, DevRef, TagRef, OidA}

IdleWalk ==
    /\ walkRefs = EmptyMap
    /\ walkName = <<>>
    /\ walkCurrent = <<>>
    /\ walkVisited = {}
    /\ walkIterations = 0
    /\ walkResult = RefErr("idle")

\* resolve_ref(name) is entered: current = name, visited is empty
StartWalk ==
    /\ walkRefs \in BranchMaps
    /\ walkName \in WalkNames
    /\ walkCurrent = walkName
    /\ walkVisited = {}
    /\ walkIterations = 0
    /\ walkResult = Running

ResolveStep ==
    /\ walkResult = Running
    /\ walkIterations < MaxIterations
    /\ LET after == ResolveIteration(walkRefs, walkCurrent, walkVisited) IN
        /\ walkCurrent' = after.current
        /\ walkVisited' = after.visited
        /\ walkResult' = after.result
    /\ walkIterations' = walkIterations + 1
    /\ UNCHANGED <<walkRefs, walkName>>
    /\ UNCHANGED NotWalk

NextWalk == ResolveStep

-----------------------------------------------------------------------------
(* The libraries under the pack codec.  zlib streams are modelled with     *)
(* stored (uncompressed) deflate blocks: a 2-byte header, one final stored *)
(* block, the Adler-32 of the content.  Like every zlib stream they end at *)
(* a boundary the decoder finds by itself.  SHA-1 is modelled by a 15-bit  *)
(* rolling checksum spread over 20 bytes; changing one byte of the input   *)
(* changes it.                                                             *)

RECURSIVE AdlerA(_, _)
AdlerA(data, n) == IF n = 0 THEN 1 ELSE (AdlerA(data, n - 1) + data[n]) % 65521

RECURSIVE AdlerB(_, _)
AdlerB(data, n) == IF n = 0 THEN 0 ELSE (AdlerB(data, n - 1) + AdlerA(data, n)) % 65521

Adler32(data) ==
    LET a == AdlerA(data, Len(data))
        b == AdlerB(data, Len(data))
    IN  <<b \div 256, b % 256, a \div 256, a % 256>>

\* ZlibEncoder::new(.., Compression::default()), write_all, finish
ZlibCompress(content) ==
    LET n == Len(content) IN
    <<120, 156, 1, n % 256, n \div 256, (65535 - n) % 256, (65535 - n) \div 256>>
    \o content \o Adler32(content)

InflateOk(data) == [ok |-> TRUE, data |-> data]

InflateErr == [ok |-> FALSE, data |-> <<>>]

\* ZlibDecoder::new(input).read_to_end: the content of the stream at the
\* start of the input; bytes after the end of the stream are ignored, a
\* malformed stream is an error, and input that ends inside the stream
\* yields what was decoded up to there.
ZlibDecompress(input) ==
    IF Len(input) < 2 THEN InflateOk(<<>>)
    ELSE IF ~(BitAnd(input[1], 15) = 8 /\ Shr(input[1], 4) <= 7
              /\ (input[1] * 256 + input[2]) % 31 = 0 /\ BitAnd(input[2], 32) = 0)
        THEN InflateErr
    ELSE IF Len(input) < 3 THEN InflateOk(<<>>)
    ELSE IF BitAnd(input[3], 6) # 0 \/ BitAnd(input[3], 1) # 1 THEN InflateErr
    ELSE IF Len(input) < 7 THEN InflateOk(<<>>)
    ELSE LET n == input[4] + 256 * input[5]
             nn == input[6] + 256 * input[7]
         IN  IF n + nn # 65535 THEN InflateErr
             ELSE IF Len(input) < 7 + n THEN InflateOk(SubSeq(input, 8, Len(input)))
             ELSE IF Len(input) < 7 + n + 4 THEN InflateOk(SubSeq(input, 8, 7 + n))
             ELSE IF SubSeq(input, 7 + n + 1, 7 + n + 4) # Adler32(SubSeq(input, 8, 7 + n))
                THEN InflateErr
             ELSE InflateOk(SubSeq(input, 8, 7 + n))

\* The checksum steps h -> 33 * h + byte + 1 (mod 2^15) of data[lo..hi],
\* composed into one step h -> m * h + a by halving the range.
RECURSIVE Sha1Steps(_, _, _)
Sha1Steps(data, lo, hi) ==
    IF lo = hi THEN [m |-> 33, a |-> data[lo] + 1]
    ELSE LET mid == (lo + hi) \div 2
             first == Sha1Steps(data, lo, mid)
             second == Sha1Steps(data, mid + 1, hi)
         IN  [m |-> (second.m * first.m) % (2 ^ 15),
              a |-> (second.m * first.a + second.a) % (2 ^ 15)]

Sha1Mix(data, n) ==
    IF n = 0 THEN 5
    ELSE (Sha1Steps(data, 1, n).m * 5 + Sha1Steps(data, 1, n).a) % (2 ^ 15)

\* Sha1::new, update(data), finalize: 20 bytes
Sha1(data) ==
    LET h == Sha1Mix(data, Len(data)) IN
    [k \in 1..20 |-> (Shr(h, 8 * ((k - 1) % 3)) + (k - 1) \div 3) % 256]

-----------------------------------------------------------------------------
(* PackParser and ProtocolHandler: pack files                              *)

\* "PACK"
PackSignature == <<80, 65, 67, 75>>

\* u32::to_be_bytes
Be32(n) == <<Shr(n, 24) % 256, Shr(n, 16) % 256, Shr(n, 8) % 256, n % 256>>

\* be_u32 of nom.  Values at or above 2^31 are reported as 2^31 - 1: the
\* model uses the number only to count loop iterations and to compare it
\* with small numbers.
BeU32(b) ==
    IF b[1] >= 128 THEN 2147483647
    ELSE ((b[1] * 256 + b[2]) * 256 + b[3]) * 256 + b[4]

\* The match of create_pack on obj.obj_type
TypeIdOf(obj_type) ==
    CASE obj_type = "commit" -> 1
      [] obj_type = "tree" -> 2
      [] obj_type = "blob" -> 3
      [] obj_type = "tag" -> 4

\* get_object_type: "unknown" stands for the Err
get_object_type(type_id) ==
    CASE type_id = 1 -> "commit"
      [] type_id = 2 -> "tree"
      [] type_id = 3 -> "blob"
      [] type_id = 4 -> "tag"
      [] OTHER -> "unknown"

\* One object record of create_pack
PackRecord(obj) ==
    write_type_and_size(TypeIdOf(obj.obj_type), obj.size) \o ZlibCompress(obj.content)

RECURSIVE PackRecords(_)
PackRecords(objects) ==
    IF Len(objects) = 0 THEN <<>>
    ELSE PackRecord(Head(objects)) \o PackRecords(Tail(objects))

\* create_pack up to the trailer
PackBody(objects) ==
    PackSignature \o Be32(2) \o Be32(Len(objects)) \o PackRecords(objects)

\* A variant whose trailer is the hash of the records alone.
create_pack_TrailerOfRecords(objects) ==
    PackBody(objects) \o Sha1(PackRecords(objects))

create_pack(objects) == PackBody(objects) \o Sha1(PackBody(objects))

PackEntry(object_type, size, data) ==
    [object_type |-> object_type, size |-> size, data |-> data]

ObjOk(rest, entry) == [ok |-> TRUE, rest |-> rest, entry |-> entry]

ObjErr == [ok |-> FALSE, rest |-> <<>>, entry |-> PackEntry("unknown", 0, <<>>)]

\* parse_header: the signature, the version and the object count; the
\* version is read and not compared with anything.
parse_header(input) ==
    IF Len(input) < 4 \/ SubSeq(input, 1, 4) # PackSignature \/ Len(input) < 12
    THEN [ok |-> FALSE, rest |-> <<>>, version |-> 0, num_objects |-> 0]
    ELSE [ok |-> TRUE, rest |-> SubSeq(input, 13, Len(input)),
          version |-> BeU32(SubSeq(input, 5, 8)),
          num_objects |-> BeU32(SubSeq(input, 9, 12))]

\* read_compressed_data_properly: the whole rest of the input is taken as
\* the compressed data, and nothing remains.
read_compressed_data_properly(input) == [rest |-> <<>>, data |-> input]

\* parse_offset: the bytes of the OFS_DELTA offset are skipped (the value is
\* not used); ok is FALSE when the input ends inside it.
RECURSIVE SkipOffset(_)
SkipOffset(input) ==
    IF Len(input) = 0 THEN [ok |-> FALSE, rest |-> <<>>]
    ELSE IF BitAnd(Head(input), 128) = 0 THEN [ok |-> TRUE, rest |-> Tail(input)]
    ELSE SkipOffset(Tail(input))

\* parse_object (parse_object_with_delta_support)
parse_object(input) ==
    LET hdr == parse_type_and_size(input) IN
    IF ~hdr.ok THEN ObjErr
    ELSE IF hdr.type = 6 THEN
        LET off == SkipOffset(hdr.rest) IN
        IF ~off.ok THEN ObjErr
        ELSE ObjOk(read_compressed_data_properly(off.rest).rest,
                   PackEntry("blob", hdr.size, read_compressed_data_properly(off.rest).data))
    ELSE IF hdr.type = 7 THEN
        IF Len(hdr.rest) < 20 THEN ObjErr
        ELSE LET after == SubSeq(hdr.rest, 21, Len(hdr.rest)) IN
             ObjOk(read_compressed_data_properly(after).rest,
                   PackEntry("blob", hdr.size, read_compressed_data_properly(after).data))
    ELSE IF get_object_type(hdr.type) = "unknown" THEN ObjErr
    ELSE LET compressed == read_compressed_data_properly(hdr.rest)
             inflated == ZlibDecompress(compressed.data)
         IN  IF ~inflated.ok THEN ObjErr
             ELSE ObjOk(compressed.rest,
                        PackEntry(get_object_type(hdr.type), hdr.size, inflated.data))

PackOk(entries) == [ok |-> TRUE, entries |-> entries, err |-> "none"]

PackErr(e) == [ok |-> FALSE, entries |-> <<>>, err |-> e]

\* The for loop of parse_pack with n objects still to read.
RECURSIVE PackLoop(_, _, _)
PackLoop(current, n, entries) ==
    IF n = 0 THEN PackOk(entries)
    ELSE LET obj == parse_object(current) IN
         IF ~obj.ok THEN PackErr("Failed to parse pack object")
         ELSE PackLoop(obj.rest, n - 1, Append(entries, obj.entry))

parse_pack(data) ==
    LET header == parse_header(data) IN
    IF ~header.ok THEN PackErr("Failed to parse pack header")
    ELSE PackLoop(header.rest, header.num_objects, <<>>)

\* PackParser.objects of a new parser
NoEntries == [k \in {} |-> PackEntry("blob", 0, <<>>)]

\* parse_pack_file_simple: the Result, and the map self.objects it leaves
parse_pack_file_simple(stored, data) ==
    LET pack_data == SubSeq(data, 1, Len(data) - 20)
        checksum_bytes == SubSeq(data, Len(data) - 19, Len(data))
        version == BeU32(SubSeq(pack_data, 5, 8))
        num_objects == BeU32(SubSeq(pack_data, 9, 12))
        failed(e) == [result |-> PackErr(e), objects |-> stored]
    IN  IF Len(data) < 32 THEN failed("Pack file too small")
        ELSE IF Sha1(pack_data) # checksum_bytes
            THEN failed("Pack file checksum verification failed")
        ELSE IF SubSeq(pack_data, 1, 4) # PackSignature
            THEN failed("Invalid pack signature")
        ELSE IF version # 2 THEN failed("Unsupported pack version")
        ELSE [result |-> PackOk(<<>>),
              objects |-> [k \in (DOMAIN stored) \cup {"header_info"} |->
                              IF k = "header_info"
                              THEN PackEntry("blob", num_objects, <<>>)
                              ELSE stored[k]]]

-----------------------------------------------------------------------------
(* A pack is created from a list of objects, may have one byte of its      *)
(* header or of its first record's type byte changed in transit, and is    *)
(* parsed.                                                                 *)

MaxObjects == 2
MaxContentLen == 1

ObjectTypes == {"commit", "tree", "blob", "tag"}

\* Non-delta objects whose size field is the length of their content.
Objects ==
    {[obj_type |-> t, size |-> Len(c), content |-> c] :
        t \in ObjectTypes, c \in SeqsUpTo({LoA}, MaxContentLen)}

IdlePack ==
    /\ packObjects = <<>>
    /\ packData = <<>>
    /\ packChanged = 0
    /\ packResult = PackErr("not run")
    /\ packStored = NoEntries
    /\ packPc = "idle"

StartPack ==
    /\ packObjects \in SeqsUpTo(Objects, MaxObjects)
    /\ packData = <<>>
    /\ packChanged = 0
    /\ packResult = PackErr("not run")
    /\ packStored = NoEntries
    /\ packPc = "input"

CreatePack ==
    /\ packPc = "input"
    /\ packData' = create_pack(packObjects)
    /\ packPc' = "created"
    /\ UNCHANGED <<packObjects, packChanged, packResult, packStored>>
    /\ UNCHANGED NotPack

\* One byte among the first 13 of the pack body arrives changed: its low
\* bit or its high bit is flipped.
ChangeByte ==
    /\ packPc = "created"
    /\ packChanged = 0
    /\ \E i \in 1..13, d \in {1, 128} :
        /\ i <= Len(packData) - 20
        /\ packData' = [packData EXCEPT ![i] =
                            IF BitAnd(packData[i], d) = 0 THEN packData[i] + d
                            ELSE packData[i] - d]
        /\ packChanged' = i
    /\ UNCHANGED <<packObjects, packResult, packStored, packPc>>
    /\ UNCHANGED NotPack

ParsePack ==
    /\ packPc = "created"
    /\ packResult' = parse_pack(packData)
    /\ packPc' = "parsed"
    /\ UNCHANGED <<packObjects, packData, packChanged, packStored>>
    /\ UNCHANGED NotPack

ParsePackFileSimple ==
    /\ packPc = "created"
    /\ packResult' = parse_pack_file_simple(packStored, packData).result
    /\ packStored' = parse_pack_file_simple(packStored, packData).objects
    /\ packPc' = "parsed_simple"
    /\ UNCHANGED <<packObjects, packData, packChanged>>
    /\ UNCHANGED NotPack

NextPack == CreatePack \/ ChangeByte \/ ParsePack \/ ParsePackFileSimple

-----------------------------------------------------------------------------
(* ProtocolHandler: capabilities, ref advertisement, want/have lines       *)

\* char::is_whitespace on the one-byte characters
IsWhitespace(c) == c \in {9, 10, 11, 12, 13, 32}

\* str::split_whitespace: the maximal runs of non-whitespace, in order;
\* word is the run being read.
RECURSIVE SplitFrom(_, _, _)
SplitFrom(s, i, word) ==
    IF i > Len(s) THEN (IF Len(word) > 0 THEN <<word>> ELSE <<>>)
    ELSE IF IsWhitespace(s[i])
        THEN (IF Len(word) > 0 THEN <<word>> ELSE <<>>) \o SplitFrom(s, i + 1, <<>>)
    ELSE SplitFrom(s, i + 1, Append(word, s[i]))

split_whitespace(s) == SplitFrom(s, 1, <<>>)

\* str::trim
RECURSIVE TrimStart(_)
TrimStart(s) ==
    IF Len(s) > 0 /\ IsWhitespace(s[1]) THEN TrimStart(Tail(s)) ELSE s

RECURSIVE TrimEnd(_)
TrimEnd(s) ==
    IF Len(s) > 0 /\ IsWhitespace(s[Len(s)]) THEN TrimEnd(SubSeq(s, 1, Len(s) - 1)) ELSE s

Trim(s) == TrimEnd(TrimStart(s))

\* str::starts_with
StartsWith(s, prefix) ==
    Len(s) >= Len(prefix) /\ SubSeq(s, 1, Len(prefix)) = prefix

\* [&str]::join
RECURSIVE Join(_, _)
Join(strs, sep) ==
    IF Len(strs) = 0 THEN <<>>
    ELSE IF Len(strs) = 1 THEN strs[1]
    ELSE strs[1] \o sep \o Join(Tail(strs), sep)

\* str::find('\0'): the 0-based position of the first NUL, or -1
RECURSIVE FindNul(_, _)
FindNul(line, i) ==
    IF i > Len(line) THEN -1
    ELSE IF line[i] = 0 THEN i - 1
    ELSE FindNul(line, i + 1)

\* parse_capabilities: (ref part, capabilities)
parse_capabilities(line) ==
    LET null_pos == FindNul(line, 1) IN
    IF null_pos >= 0
    THEN <<SubSeq(line, 1, null_pos),
           split_whitespace(SubSeq(line, null_pos + 2, Len(line)))>>
    ELSE <<line, <<>>>>

\* "0000000000000000000000000000000000000000"
ZeroId == [i \in 1..40 |-> CH0]

\* "capabilities^{}"
CapabilitiesPlaceholder ==
    <<99, 97, 112, 97, 98, 105, 108, 105, 116, 105, 101, 115, 94, 123, 125>>

\* The lines after the first: "{ref_hash} {ref_name}" of refs[from..]
RECURSIVE PlainRefLines(_, _)
PlainRefLines(ref_pairs, from) ==
    IF from > Len(ref_pairs) THEN <<>>
    ELSE <<ref_pairs[from][2] \o <<32>> \o ref_pairs[from][1]>> \o PlainRefLines(ref_pairs, from + 1)

\* A variant of the advertisement that writes "{ref_name} {ref_hash}".
AdvLines_NameFirst(ref_pairs, capabilities) ==
    IF Len(ref_pairs) = 0
    THEN <<ZeroId \o <<32>> \o CapabilitiesPlaceholder \o <<0>> \o Join(capabilities, <<32>>)>>
    ELSE <<ref_pairs[1][1] \o <<32>> \o ref_pairs[1][2] \o <<0>> \o Join(capabilities, <<32>>)>>
         \o [i \in 1..(Len(ref_pairs) - 1) |-> ref_pairs[i + 1][1] \o <<32>> \o ref_pairs[i + 1][2]]

\* The lines of create_ref_advertisement; a ref is <<name, hash>>.
AdvLines(ref_pairs, capabilities) ==
    IF Len(ref_pairs) = 0
    THEN <<ZeroId \o <<32>> \o CapabilitiesPlaceholder \o <<0>> \o Join(capabilities, <<32>>)>>
    ELSE <<ref_pairs[1][2] \o <<32>> \o ref_pairs[1][1] \o <<0>> \o Join(capabilities, <<32>>)>>
         \o PlainRefLines(ref_pairs, 2)

create_ref_advertisement(ref_pairs, capabilities) ==
    create_pkt_line(AdvLines(ref_pairs, capabilities))

\* "want " and "have "
WantPrefix == <<119, 97, 110, 116, 32>>

HavePrefix == <<104, 97, 118, 101, 32>>

\* parse_want_have: the second word of every trimmed line that starts with
\* "want " (wants) or "have " (haves); the call has no Err path.
RECURSIVE parse_want_have(_)
parse_want_have(pkt_lines) ==
    IF Len(pkt_lines) = 0 THEN [wants |-> <<>>, haves |-> <<>>]
    ELSE LET line == Trim(Head(pkt_lines))
             parts == split_whitespace(line)
             rest == parse_want_have(Tail(pkt_lines))
         IN  IF StartsWith(line, WantPrefix)
             THEN [wants |-> (IF Len(parts) >= 2 THEN <<parts[2]>> ELSE <<>>) \o rest.wants,
                   haves |-> rest.haves]
             ELSE IF StartsWith(line, HavePrefix)
             THEN [wants |-> rest.wants,
                   haves |-> (IF Len(parts) >= 2 THEN <<parts[2]>> ELSE <<>>) \o rest.haves]
             ELSE rest

\* "NAK"
create_nak == create_pkt_line(<<<<78, 65, 75>>>>)

\* "ACK {hash}"
create_ack(hash) == create_pkt_line(<<<<65, 67, 75, 32>> \o hash>>)

-----------------------------------------------------------------------------
(* A server advertises its refs and a client reads the advertisement       *)

MaxAdvRefs == 2
MaxAdvCaps == 2

\* Ref names (one of them ending in a newline) and object ids, shortened
AdvNames == {<<114>>, <<116>>, <<114, NL>>}

AdvHashes == {<<49>>}

AdvRefs == {<<n, h>> : n \in AdvNames, h \in AdvHashes}

\* Capabilities: two tokens, one string with a space in it, the empty string
AdvCapabilities == {<<109>>, <<111, 45, 100>>, <<109, 32, 111>>, <<>>}

NoParse == <<<<>>, <<>>>>

IdleAdv ==
    /\ advRefs = <<>>
    /\ advCaps = <<>>
    /\ advData = <<>>
    /\ advLines = NoResult
    /\ advParsed = NoParse
    /\ advPc = "idle"

StartAdv ==
    /\ advRefs \in SeqsUpTo(AdvRefs, MaxAdvRefs)
    /\ advCaps \in SeqsUpTo(AdvCapabilities, MaxAdvCaps)
    /\ advData = <<>>
    /\ advLines = NoResult
    /\ advParsed = NoParse
    /\ advPc = "input"

CreateRefAdvertisement ==
    /\ advPc = "input"
    /\ advData' = create_ref_advertisement(advRefs, advCaps)
    /\ advPc' = "created"
    /\ UNCHANGED <<advRefs, advCaps, advLines, advParsed>>
    /\ UNCHANGED NotAdv

\* The reader of the advertisement parses the pkt-lines and takes the
\* capabilities from the first line.
ParseAdvertisement ==
    /\ advPc = "created"
    /\ advLines' = parse_pkt_line(advData)
    /\ advParsed' = IF advLines'.ok /\ Len(advLines'.lines) > 0
                    THEN parse_capabilities(advLines'.lines[1])
                    ELSE NoParse
    /\ advPc' = "parsed"
    /\ UNCHANGED <<advRefs, advCaps, advData>>
    /\ UNCHANGED NotAdv

NextAdv == CreateRefAdvertisement \/ ParseAdvertisement

-----------------------------------------------------------------------------
(* The smart HTTP handlers and the SSH session                             *)

\* "refs/heads/main"
RefsHeadsMain ==
    <<114, 101, 102, 115, 47, 104, 101, 97, 100, 115, 47, 109, 97, 105, 110>>

\* "1234567890abcdef1234567890abcdef12345678"
SampleId ==
    <<49, 50, 51, 52, 53, 54, 55, 56, 57, 48, 97, 98, 99, 100, 101, 102,
      49, 50, 51, 52, 53, 54, 55, 56, 57, 48, 97, 98, 99, 100, 101, 102,
      49, 50, 51, 52, 53, 54, 55, 56>>

CapMultiAck == <<109, 117, 108, 116, 105, 95, 97, 99, 107>>

CapSideBand64k == <<115, 105, 100, 101, 45, 98, 97, 110, 100, 45, 54, 52, 107>>

CapOfsDelta == <<111, 102, 115, 45, 100, 101, 108, 116, 97>>

CapThinPack == <<116, 104, 105, 110, 45, 112, 97, 99, 107>>

CapReportStatus == <<114, 101, 112, 111, 114, 116, 45, 115, 116, 97, 116, 117, 115>>

CapDeleteRefs == <<100, 101, 108, 101, 116, 101, 45, 114, 101, 102, 115>>

\* "unpack ok\n"
UnpackOk == <<117, 110, 112, 97, 99, 107, 32, 111, 107, 10>>

\* The capabilities info_refs advertises for a service
HttpCapabilities(service) ==
    CASE service = "git-upload-pack" -> <<CapMultiAck, CapSideBand64k, CapOfsDelta>>
      [] service = "git-receive-pack" -> <<CapReportStatus, CapDeleteRefs, CapOfsDelta>>
      [] OTHER -> <<>>

\* The refs and capabilities handle_upload_pack and handle_receive_pack send
SshRefs(service) ==
    IF service = "git-receive-pack" THEN <<<<RefsHeadsMain, ZeroId>>>>
    ELSE <<<<RefsHeadsMain, SampleId>>>>

SshCapabilities(service) ==
    IF service = "git-receive-pack"
    THEN <<CapReportStatus, CapDeleteRefs, CapOfsDelta, CapSideBand64k>>
    ELSE <<CapMultiAck, CapOfsDelta, CapSideBand64k, CapThinPack>>

\* An HTTP response or a piece of channel data
Message(kind, status, body) == [kind |-> kind, status |-> status, body |-> body]

\* The bytes of a request: its pkt-lines, then the pack
RequestBytes(request) ==
    (IF request.framed THEN create_pkt_line(request.lines) ELSE request.lines[1])
    \o request.pack

\* info_refs
info_refs(service, repo, ref_pairs) ==
    IF repo = "missing" THEN Message("error", 404, <<>>)
    ELSE IF repo = "error" THEN Message("error", 500, <<>>)
    ELSE Message("advertisement", 200,
                 create_ref_advertisement(ref_pairs, HttpCapabilities(service)))

\* upload_pack: the request is parsed and answered with NAK; no pack is
\* made.
upload_pack(repo, body) ==
    IF repo = "missing" THEN Message("error", 404, <<>>)
    ELSE IF repo = "error" THEN Message("error", 500, <<>>)
    ELSE IF ~parse_pkt_line(body).ok THEN Message("error", 400, <<>>)
    ELSE Message("nak", 200, create_nak)

\* receive_pack: the body is not read.
receive_pack(repo, body) ==
    IF repo = "missing" THEN Message("error", 404, <<>>)
    ELSE IF repo = "error" THEN Message("error", 500, <<>>)
    ELSE Message("report", 200, UnpackOk)

-----------------------------------------------------------------------------
(* One exchange of a client with the server, over HTTP or over SSH         *)

MaxRequestLines == 2

\* "want a", "have a"
WantLine == WantPrefix \o <<LoA>>

HaveLine == HavePrefix \o <<LoA>>

\* "zzzz": no length prefix
Unframed == <<122, 122, 122, 122>>

FetchRequests ==
    {[framed |-> TRUE, lines |-> l, pack |-> <<>>] :
        l \in SeqsUpTo({WantLine, HaveLine}, MaxRequestLines)}
    \cup {[framed |-> FALSE, lines |-> <<Unframed>>, pack |-> <<>>]}

\* A ref command "<old> <new> <name>" with shortened ids
RefCommand == <<CH0, 32, LoA, 32>> \o RefsHeadsMain

ABlob == [obj_type |-> "blob", size |-> 1, content |-> <<LoA>>]

\* A pack whose signature is not "PACK"
BrokenPack == [create_pack(<<ABlob>>) EXCEPT ![1] = 88]

PushRequests ==
    {[framed |-> TRUE, lines |-> l, pack |-> p] :
        l \in {<<>>, <<RefCommand>>},
        p \in {create_pack(<<>>), create_pack(<<ABlob>>), BrokenPack}}

IdleXchg ==
    /\ xchgTransport = "none"
    /\ xchgService = "none"
    /\ xchgRepo = "found"
    /\ xchgRefs = <<>>
    /\ xchgRequest = [framed |-> TRUE, lines |-> <<>>, pack |-> <<>>]
    /\ xchgCommand = "none"
    /\ xchgLog = NoResult
    /\ xchgSent = <<>>
    /\ xchgDone = FALSE

StartXchg ==
    /\ xchgTransport \in {"http", "ssh"}
    /\ xchgService \in {"git-upload-pack", "git-receive-pack"}
    /\ xchgRepo \in {"found", "missing", "error"}
    /\ xchgRefs \in {<<>>, <<<<RefsHeadsMain, SampleId>>>>}
    /\ xchgRequest \in (IF xchgService = "git-upload-pack" THEN FetchRequests
                        ELSE PushRequests)
    /\ xchgCommand = "none"
    /\ xchgLog = NoResult
    /\ xchgSent = <<>>
    /\ xchgDone = FALSE

\* GET /{repo}/info/refs?service=...
InfoRefs ==
    /\ xchgTransport = "http"
    /\ ~xchgDone
    /\ xchgSent = <<>>
    /\ xchgSent' = <<info_refs(xchgService, xchgRepo, xchgRefs)>>
    /\ UNCHANGED <<xchgTransport, xchgService, xchgRepo, xchgRefs, xchgRequest,
                   xchgCommand, xchgLog, xchgDone>>
    /\ UNCHANGED NotXchg

\* POST /{repo}/git-upload-pack
UploadPack ==
    /\ xchgTransport = "http"
    /\ xchgService = "git-upload-pack"
    /\ ~xchgDone
    /\ xchgSent' = Append(xchgSent, upload_pack(xchgRepo, RequestBytes(xchgRequest)))
    /\ xchgDone' = TRUE
    /\ UNCHANGED <<xchgTransport, xchgService, xchgRepo, xchgRefs, xchgRequest,
                   xchgCommand, xchgLog>>
    /\ UNCHANGED NotXchg

\* POST /{repo}/git-receive-pack
ReceivePack ==
    /\ xchgTransport = "http"
    /\ xchgService = "git-receive-pack"
    /\ ~xchgDone
    /\ xchgSent' = Append(xchgSent, receive_pack(xchgRepo, RequestBytes(xchgRequest)))
    /\ xchgDone' = TRUE
    /\ UNCHANGED <<xchgTransport, xchgService, xchgRepo, xchgRefs, xchgRequest,
                   xchgCommand, xchgLog>>
    /\ UNCHANGED NotXchg

\* exec_request with a git-upload-pack or git-receive-pack command: the
\* command is kept and the advertisement is sent on the channel.
ExecRequest ==
    /\ xchgTransport = "ssh"
    /\ xchgCommand = "none"
    /\ xchgCommand' = xchgService
    /\ xchgSent' = Append(xchgSent,
            Message("advertisement", 0,
                    create_ref_advertisement(SshRefs(xchgService),
                                             SshCapabilities(xchgService))))
    /\ UNCHANGED <<xchgTransport, xchgService, xchgRepo, xchgRefs, xchgRequest,
                   xchgLog, xchgDone>>
    /\ UNCHANGED NotXchg

\* data: for git-receive-pack the chunk goes to handle_pack_data, which
\* parses it as pkt-lines and logs the outcome; for any other command the
\* chunk is dropped.  Nothing is sent in either case.
Data ==
    /\ xchgTransport = "ssh"
    /\ xchgCommand # "none"
    /\ xchgLog = NoResult
    /\ xchgLog' = IF xchgCommand = "git-receive-pack"
                  THEN parse_pkt_line(RequestBytes(xchgRequest))
                  ELSE [NoResult EXCEPT !.err = "dropped"]
    /\ UNCHANGED <<xchgTransport, xchgService, xchgRepo, xchgRefs, xchgRequest,
                   xchgCommand, xchgSent, xchgDone>>
    /\ UNCHANGED NotXchg

NextXchg == InfoRefs \/ UploadPack \/ ReceivePack \/ ExecRequest \/ Data

-----------------------------------------------------------------------------
(* ObjectHandler: object ids, commits and trees (inputs are ASCII)         *)

\* hex::encode
RECURSIVE HexEncode(_)
HexEncode(bytes) ==
    IF Len(bytes) = 0 THEN <<>>
    ELSE <<HexChar(Head(bytes) \div 16), HexChar(Head(bytes) % 16)>> \o HexEncode(Tail(bytes))

\* hex::decode(..).unwrap_or_default(): the bytes, or none when the string
\* has odd length or a character that is no hex digit
RECURSIVE HexDecodePairs(_)
HexDecodePairs(str) ==
    IF Len(str) = 0 THEN <<>>
    ELSE <<HexDigitValue(str[1]) * 16 + HexDigitValue(str[2])>>
         \o HexDecodePairs(SubSeq(str, 3, Len(str)))

HexDecodeOrDefault(str) ==
    IF Len(str) % 2 = 1 \/ \E i \in 1..Len(str) : ~IsHexDigit(str[i]) THEN <<>>
    ELSE HexDecodePairs(str)

\* format!("{}", n) of a usize
RECURSIVE Decimal(_)
Decimal(n) ==
    IF n < 10 THEN <<CH0 + n>> ELSE Append(Decimal(n \div 10), CH0 + (n % 10))

\* The match of calculate_hash on obj_type
TypeStr(obj_type) ==
    CASE obj_type = "commit" -> <<99, 111, 109, 109, 105, 116>>
      [] obj_type = "tree" -> <<116, 114, 101, 101>>
      [] obj_type = "blob" -> <<98, 108, 111, 98>>
      [] obj_type = "tag" -> <<116, 97, 103>>

\* A variant of the hash that leaves the header out.
calculate_hash_ContentOnly(obj_type, content) == HexEncode(Sha1(content))

\* calculate_hash: the call has no Err path.
calculate_hash(obj_type, content) ==
    LET header == TypeStr(obj_type) \o <<32>> \o Decimal(Len(content)) \o <<0>>
    IN  HexEncode(Sha1(header \o content))

GitObject(id, obj_type, size, content) ==
    [id |-> id, obj_type |-> obj_type, size |-> size, content |-> content]

\* ObjectHandler::parse_object
parse_git_object(obj_type, content) ==
    GitObject(calculate_hash(obj_type, content), obj_type, Len(content), content)

create_blob(content) ==
    GitObject(calculate_hash("blob", content), "blob", Len(content), content)

\* "tree ", "parent ", "author ", "committer "
TreePrefix == <<116, 114, 101, 101, 32>>

ParentPrefix == <<112, 97, 114, 101, 110, 116, 32>>

AuthorPrefix == <<97, 117, 116, 104, 111, 114, 32>>

CommitterPrefix == <<99, 111, 109, 109, 105, 116, 116, 101, 114, 32>>

RECURSIVE ParentLines(_)
ParentLines(parents) ==
    IF Len(parents) = 0 THEN <<>>
    ELSE ParentPrefix \o Head(parents) \o <<NL>> \o ParentLines(Tail(parents))

serialize_commit(commit) ==
    TreePrefix \o commit.tree \o <<NL>>
    \o ParentLines(commit.parents)
    \o AuthorPrefix \o commit.author \o <<NL>>
    \o CommitterPrefix \o commit.committer \o <<NL>>
    \o <<NL>>
    \o commit.message

create_commit(commit) ==
    LET content == serialize_commit(commit) IN
    GitObject(calculate_hash("commit", content), "commit", Len(content), content)

RECURSIVE serialize_tree(_)
serialize_tree(entries) ==
    IF Len(entries) = 0 THEN <<>>
    ELSE Head(entries).mode \o <<32>> \o Head(entries).name \o <<0>>
         \o HexDecodeOrDefault(Head(entries).hash) \o serialize_tree(Tail(entries))

create_tree(tree) ==
    LET content == serialize_tree(tree.entries) IN
    GitObject(calculate_hash("tree", content), "tree", Len(content), content)

\* str::lines: the pieces between newlines, a carriage return before a
\* newline dropped, no last piece after a final newline; line is the piece
\* being read.
RECURSIVE LinesFrom(_, _, _)
LinesFrom(str, i, line) ==
    IF i > Len(str) THEN (IF Len(line) > 0 THEN <<line>> ELSE <<>>)
    ELSE IF str[i] = NL
        THEN <<IF Len(line) > 0 /\ line[Len(line)] = 13
               THEN SubSeq(line, 1, Len(line) - 1) ELSE line>>
             \o LinesFrom(str, i + 1, <<>>)
    ELSE LinesFrom(str, i + 1, Append(line, str[i]))

StrLines(str) == LinesFrom(str, 1, <<>>)

Commit(tree, parents, author, committer, message, author_date, commit_date) ==
    [tree |-> tree, parents |-> parents, author |-> author, committer |-> committer,
     message |-> message, author_date |-> author_date, commit_date |-> commit_date]

\* The for loop of parse_commit over the header lines from line i (1-based
\* here); now is what Utc::now() returns during the call.
RECURSIVE CommitLoop(_, _, _, _)
CommitLoop(lines, i, acc, now) ==
    IF i > Len(lines) THEN acc
    ELSE LET line == lines[i] IN
         IF StartsWith(line, TreePrefix)
         THEN CommitLoop(lines, i + 1,
                  [acc EXCEPT !.tree = SubSeq(line, 6, Len(line))], now)
         ELSE IF StartsWith(line, ParentPrefix)
         THEN CommitLoop(lines, i + 1,
                  [acc EXCEPT !.parents = Append(@, SubSeq(line, 8, Len(line)))], now)
         ELSE IF StartsWith(line, AuthorPrefix)
         THEN CommitLoop(lines, i + 1,
                  [acc EXCEPT !.author = SubSeq(line, 8, Len(line)),
                              !.author_date = now], now)
         ELSE IF StartsWith(line, CommitterPrefix)
         THEN CommitLoop(lines, i + 1,
                  [acc EXCEPT !.committer = SubSeq(line, 11, Len(line)),
                              !.commit_date = now], now)
         ELSE IF Len(line) = 0 THEN [acc EXCEPT !.message_start = i]
         ELSE CommitLoop(lines, i + 1, acc, now)

\* parse_commit: the call has no Err path.
parse_commit(content, now) ==
    LET lines == StrLines(content)
        start == [tree |-> <<>>, parents |-> <<>>, author |-> <<>>, committer |-> <<>>,
                  author_date |-> now, commit_date |-> now, message_start |-> 0]
        acc == CommitLoop(lines, 1, start, now)
    IN  Commit(acc.tree, acc.parents, acc.author, acc.committer,
               Join(SubSeq(lines, acc.message_start + 1, Len(lines)), <<NL>>),
               acc.author_date, acc.commit_date)

-----------------------------------------------------------------------------
(* Objects are made from contents, commits and trees, and the bytes of a   *)
(* commit are parsed, while the wall clock advances.                       *)

MaxObjContent == 2
MaxClock == 3

\* "A 1 +0000" and "C 2 +0000": a name, a Unix timestamp, an offset
AuthorOne == <<65, 32, 49, 32, 43, 48, 48, 48, 48>>

CommitterTwo == <<67, 32, 50, 32, 43, 48, 48, 48, 48>>

\* Messages: empty, "m", "m\nn", "m\n" and "m\n\nn"
Messages == {<<>>, <<109>>, <<109, NL, 110>>, <<109, NL>>, <<109, NL, NL, 110>>}

\* Commits with no parent, one parent, and two (a merge)
Commits ==
    {Commit(<<116>>, ps, AuthorOne, CommitterTwo, m, 1, 2) :
        ps \in {<<>>, <<<<112>>>>, <<<<112>>, <<113>>>>}, m \in Messages}

\* Tree entries with a hash of 40 hex digits, and one whose hash is no hex
TreeEntries ==
    {[mode |-> <<49>>, name |-> <<110>>, hash |-> h] :
        h \in {[i \in 1..40 |-> LoA], <<122, 122>>}}

Trees == {[entries |-> e] : e \in SeqsUpTo(TreeEntries, 1)}

\* The arguments of the calls: a type and a content, a commit, a tree; one
\* of them varies at a time.
PlainInput ==
    [obj_type |-> "blob", content |-> <<>>,
     commit |-> Commit(<<116>>, <<>>, AuthorOne, CommitterTwo, <<>>, 1, 2),
     tree |-> [entries |-> <<>>]]

ObjInputs ==
    {[PlainInput EXCEPT !.obj_type = t, !.content = c] :
        t \in ObjectTypes, c \in SeqsUpTo({LoA}, MaxObjContent)}
    \cup {[PlainInput EXCEPT !.commit = c] : c \in Commits}
    \cup {[PlainInput EXCEPT !.tree = t] : t \in Trees}

NoObject == [op |-> "none", ok |-> FALSE, object |-> GitObject(<<>>, "blob", 0, <<>>)]

Returned(op, object) == [op |-> op, ok |-> TRUE, object |-> object]

IdleObj ==
    /\ objInput = [obj_type |-> "blob", content |-> <<>>,
                   commit |-> Commit(<<>>, <<>>, <<>>, <<>>, <<>>, 0, 0),
                   tree |-> [entries |-> <<>>]]
    /\ objClock = 0
    /\ objResult = NoObject
    /\ objCommits = <<>>

StartObj ==
    /\ objInput \in ObjInputs
    /\ objClock = 1
    /\ objResult = NoObject
    /\ objCommits = <<>>

ParseObject ==
    /\ objClock > 0
    /\ objResult' = Returned("parse_object",
                             parse_git_object(objInput.obj_type, objInput.content))
    /\ UNCHANGED <<objInput, objClock, objCommits>>
    /\ UNCHANGED NotObj

CreateBlob ==
    /\ objClock > 0
    /\ objResult' = Returned("create_blob", create_blob(objInput.content))
    /\ UNCHANGED <<objInput, objClock, objCommits>>
    /\ UNCHANGED NotObj

CreateCommit ==
    /\ objClock > 0
    /\ objResult' = Returned("create_commit", create_commit(objInput.commit))
    /\ UNCHANGED <<objInput, objClock, objCommits>>
    /\ UNCHANGED NotObj

CreateTree ==
    /\ objClock > 0
    /\ objResult' = Returned("create_tree", create_tree(objInput.tree))
    /\ UNCHANGED <<objInput, objClock, objCommits>>
    /\ UNCHANGED NotObj

\* The bytes of the commit are parsed, at most twice.
ParseCommit ==
    /\ objClock > 0
    /\ Len(objCommits) < 2
    /\ objCommits' = Append(objCommits,
                            parse_commit(serialize_commit(objInput.commit), objClock))
    /\ UNCHANGED <<objInput, objClock, objResult>>
    /\ UNCHANGED NotObj

\* Time passes.
Tick ==
    /\ objClock > 0
    /\ objClock < MaxClock
    /\ objClock' = objClock + 1
    /\ UNCHANGED <<objInput, objResult, objCommits>>
    /\ UNCHANGED NotObj

NextObj == ParseObject \/ CreateBlob \/ CreateCommit \/ CreateTree \/ ParseCommit \/ Tick

-----------------------------------------------------------------------------
(* The storage layer keeps refs as rows of table git_ref.  Its calls are   *)
(* async: every database statement is awaited, and between two statements  *)
(* of one call the statements of other tasks can run.                      *)

\* The rows a query on (repository_id, name) selects
RowsNamed(rows, repository_id, name) ==
    {r \in rows : r.repository_id = repository_id /\ r.name = name}

\* .one(): the first selected row, or None
One(selected) == IF selected = {} THEN {{}} ELSE {{r} : r \in selected}

\* An insert without the unique index on (repository_id, name)
InsertRow_NoUniqueIndex(rows, row) ==
    IF \E r \in rows : r.id = row.id
    THEN [ok |-> FALSE, rows |-> rows]
    ELSE [ok |-> TRUE, rows |-> rows \cup {row}]

\* ActiveModel::insert on git_ref: the primary key and the unique index
\* idx-gitref-repo-name reject the row
InsertRow(rows, row) ==
    IF \/ \E r \in rows : r.id = row.id
       \/ RowsNamed(rows, row.repository_id, row.name) # {}
    THEN [ok |-> FALSE, rows |-> rows]
    ELSE [ok |-> TRUE, rows |-> rows \cup {row}]

\* ActiveModel::update: by primary key; an error when no row has it
UpdateRow(rows, id, target, is_symbolic) ==
    IF \E r \in rows : r.id = id
    THEN [ok |-> TRUE,
          rows |-> {IF r.id = id
                    THEN [r EXCEPT !.target = target, !.is_symbolic = is_symbolic]
                    ELSE r : r \in rows}]
    ELSE [ok |-> FALSE, rows |-> rows]

\* delete_many().filter(..).exec()
DeleteNamed(rows, repository_id, name) ==
    rows \ RowsNamed(rows, repository_id, name)

GitRefRow(id, repository_id, name, target, is_symbolic) ==
    [id |-> id, repository_id |-> repository_id, name |-> name,
     target |-> target, is_symbolic |-> is_symbolic]

\* format!("refs/heads/{}", branch_name)
BranchRefName(branch_name) == "refs/heads/" \o branch_name

\* format!("refs/tags/{}", tag_name)
TagRefName(tag_name) == "refs/tags/" \o tag_name

-----------------------------------------------------------------------------
(* Tasks call store_ref, create_branch, create_lightweight_tag and         *)
(* delete_ref on the same database.                                        *)

MaxCalls == 3

Tasks == {"t1", "t2"}

RepositoryIds == {"r1", "r2"}

StoreBranchNames == {"main"}

StoreTagNames == {"v1"}

StoreRefNames == {BranchRefName("main"), TagRefName("v1")}

CommitIds == {"c1", "c2"}

\* Targets given to store_ref: a commit, and a symbolic target
StoreRefTargets == {<<"c1", FALSE>>, <<BranchRefName("main"), TRUE>>}

\* The commits table git_object holds
StoredCommits == {"c1"}

NoCall ==
    [op |-> "none", pc |-> "idle", repository_id |-> "", name |-> "", target |-> "",
     is_symbolic |-> FALSE, existing |-> {}, calls |-> 0, result |-> "none"]

\* Uuid::new_v4(): an id no other insert draws
NewId(t) == <<t, storeCalls[t].calls>>

\* The calls made so far, by all tasks
RECURSIVE CallsOf(_)
CallsOf(tasks) ==
    IF tasks = {} THEN 0
    ELSE LET t == CHOOSE x \in tasks : TRUE
         IN  storeCalls[t].calls + CallsOf(tasks \ {t})

CallsMade == CallsOf(DOMAIN storeCalls)

Begin(t, op, repository_id, name, target, is_symbolic) ==
    /\ storeCalls[t].pc = "idle"
    /\ CallsMade < MaxCalls
    /\ storeCalls' = [storeCalls EXCEPT ![t] =
            [op |-> op, pc |-> "find", repository_id |-> repository_id,
             name |-> name, target |-> target, is_symbolic |-> is_symbolic,
             existing |-> {}, calls |-> @.calls + 1, result |-> "none"]]
    /\ UNCHANGED gitRefRows

Return(t, result) ==
    storeCalls' = [storeCalls EXCEPT ![t] =
            [NoCall EXCEPT !.calls = storeCalls[t].calls, !.result = result]]

IdleStore ==
    /\ gitRefRows = {}
    /\ storeCalls = [t \in {} |-> NoCall]

StartStore ==
    /\ gitRefRows = {}
    /\ storeCalls = [t \in Tasks |-> NoCall]

\* store_ref is called
StoreRefCall ==
    \E t \in DOMAIN storeCalls, r \in RepositoryIds, n \in StoreRefNames,
       target \in StoreRefTargets :
        /\ Begin(t, "store_ref", r, n, target[1], target[2])
        /\ UNCHANGED NotStore

\* store_ref: find().filter().one() is awaited
StoreRefFind ==
    \E t \in DOMAIN storeCalls :
        /\ storeCalls[t].op = "store_ref"
        /\ storeCalls[t].pc = "find"
        /\ \E e \in One(RowsNamed(gitRefRows, storeCalls[t].repository_id,
                                  storeCalls[t].name)) :
            storeCalls' = [storeCalls EXCEPT ![t].pc = "write", ![t].existing = e]
        /\ UNCHANGED gitRefRows
        /\ UNCHANGED NotStore

\* store_ref: the ref existed, update() is awaited
StoreRefUpdate ==
    \E t \in DOMAIN storeCalls :
        /\ storeCalls[t].op = "store_ref"
        /\ storeCalls[t].pc = "write"
        /\ \E e \in storeCalls[t].existing :
            LET done == UpdateRow(gitRefRows, e.id, storeCalls[t].target,
                               storeCalls[t].is_symbolic)
            IN  /\ gitRefRows' = done.rows
                /\ Return(t, IF done.ok THEN "ok" ELSE "DbErr: RecordNotUpdated")
        /\ UNCHANGED NotStore

\* store_ref: the ref did not exist, insert() is awaited
StoreRefInsert ==
    \E t \in DOMAIN storeCalls :
        /\ storeCalls[t].op = "store_ref"
        /\ storeCalls[t].pc = "write"
        /\ storeCalls[t].existing = {}
        /\ LET done == InsertRow(gitRefRows,
                              GitRefRow(NewId(t), storeCalls[t].repository_id,
                                        storeCalls[t].name, storeCalls[t].target,
                                        storeCalls[t].is_symbolic))
           IN  /\ gitRefRows' = done.rows
               /\ Return(t, IF done.ok THEN "ok" ELSE "DbErr: unique")
        /\ UNCHANGED NotStore

\* create_branch is called
CreateBranchCall ==
    \E t \in DOMAIN storeCalls, r \in RepositoryIds, b \in StoreBranchNames,
       c \in CommitIds :
        /\ Begin(t, "create_branch", r, BranchRefName(b), c, FALSE)
        /\ UNCHANGED NotStore

\* create_lightweight_tag is called
CreateLightweightTagCall ==
    \E t \in DOMAIN storeCalls, r \in RepositoryIds, g \in StoreTagNames,
       c \in StoredCommits :
        /\ Begin(t, "create_lightweight_tag", r, TagRefName(g), c, FALSE)
        /\ UNCHANGED NotStore

\* create_branch, create_lightweight_tag: get_ref is awaited; a ref that
\* exists ends the call with an error
CreateGetRef ==
    \E t \in DOMAIN storeCalls :
        /\ storeCalls[t].op \in {"create_branch", "create_lightweight_tag"}
        /\ storeCalls[t].pc = "find"
        /\ \E e \in One(RowsNamed(gitRefRows, storeCalls[t].repository_id,
                                  storeCalls[t].name)) :
            IF e # {}
            THEN Return(t, "already exists")
            ELSE storeCalls' = [storeCalls EXCEPT ![t].pc = "write"]
        /\ UNCHANGED gitRefRows
        /\ UNCHANGED NotStore

\* create_branch: insert() is awaited; get_commit_info follows
CreateBranchInsert ==
    \E t \in DOMAIN storeCalls :
        /\ storeCalls[t].op = "create_branch"
        /\ storeCalls[t].pc = "write"
        /\ LET done == InsertRow(gitRefRows,
                              GitRefRow(NewId(t), storeCalls[t].repository_id,
                                        storeCalls[t].name, storeCalls[t].target,
                                        FALSE))
           IN  /\ gitRefRows' = done.rows
               /\ IF done.ok
                  THEN storeCalls' = [storeCalls EXCEPT ![t].pc = "commit_info"]
                  ELSE Return(t, "DbErr: unique")
        /\ UNCHANGED NotStore

\* create_branch: get_commit_info is awaited
CreateBranchCommitInfo ==
    \E t \in DOMAIN storeCalls :
        /\ storeCalls[t].op = "create_branch"
        /\ storeCalls[t].pc = "commit_info"
        /\ Return(t, IF storeCalls[t].target \in StoredCommits
                     THEN "ok" ELSE "Commit not found")
        /\ UNCHANGED gitRefRows
        /\ UNCHANGED NotStore

\* create_lightweight_tag: insert() is awaited
CreateLightweightTagInsert ==
    \E t \in DOMAIN storeCalls :
        /\ storeCalls[t].op = "create_lightweight_tag"
        /\ storeCalls[t].pc = "write"
        /\ LET done == InsertRow(gitRefRows,
                              GitRefRow(NewId(t), storeCalls[t].repository_id,
                                        storeCalls[t].name, storeCalls[t].target,
                                        FALSE))
           IN  /\ gitRefRows' = done.rows
               /\ Return(t, IF done.ok THEN "ok" ELSE "DbErr: unique")
        /\ UNCHANGED NotStore

\* delete_ref: one statement
StoreDeleteRef ==
    \E t \in DOMAIN storeCalls, r \in RepositoryIds, n \in StoreRefNames :
        /\ storeCalls[t].pc = "idle"
        /\ CallsMade < MaxCalls
        /\ gitRefRows' = DeleteNamed(gitRefRows, r, n)
        /\ storeCalls' = [storeCalls EXCEPT ![t] =
                [NoCall EXCEPT !.calls = storeCalls[t].calls + 1, !.result = "ok"]]
        /\ UNCHANGED NotStore

NextStore ==
    \/ StoreRefCall \/ StoreRefFind \/ StoreRefUpdate \/ StoreRefInsert
    \/ CreateBranchCall \/ CreateLightweightTagCall \/ CreateGetRef
    \/ CreateBranchInsert \/ CreateBranchCommitInfo
    \/ CreateLightweightTagInsert \/ StoreDeleteRef

-----------------------------------------------------------------------------
(* Specifications, one per component; the other components stay idle       *)

InitPkt == StartPkt /\ IdleHdr /\ IdleDelta /\ IdleRef /\ IdlePack /\ IdleAdv /\ IdleXchg /\ IdleObj /\ IdleStore /\ IdleBranch /\ IdleWalk

SpecPkt == InitPkt /\ [][NextPkt]_vars

InitHdr == StartHdr /\ IdlePkt /\ IdleDelta /\ IdleRef /\ IdlePack /\ IdleAdv /\ IdleXchg /\ IdleObj /\ IdleStore /\ IdleBranch /\ IdleWalk

SpecHdr == InitHdr /\ [][NextHdr]_vars

InitDelta == StartDelta /\ IdlePkt /\ IdleHdr /\ IdleRef /\ IdlePack /\ IdleAdv /\ IdleXchg /\ IdleObj /\ IdleStore /\ IdleBranch /\ IdleWalk

SpecDelta == InitDelta /\ [][NextDelta]_vars

InitRef == StartRef /\ IdlePkt /\ IdleHdr /\ IdleDelta /\ IdlePack /\ IdleAdv /\ IdleXchg /\ IdleObj /\ IdleStore /\ IdleBranch /\ IdleWalk

SpecRef == InitRef /\ [][NextRef]_vars

InitPack == StartPack /\ IdlePkt /\ IdleHdr /\ IdleDelta /\ IdleRef /\ IdleAdv /\ IdleXchg /\ IdleObj /\ IdleStore /\ IdleBranch /\ IdleWalk

SpecPack == InitPack /\ [][NextPack]_vars

InitAdv == StartAdv /\ IdlePkt /\ IdleHdr /\ IdleDelta /\ IdleRef /\ IdlePack /\ IdleXchg /\ IdleObj /\ IdleStore /\ IdleBranch /\ IdleWalk

SpecAdv == InitAdv /\ [][NextAdv]_vars

InitXchg == StartXchg /\ IdlePkt /\ IdleHdr /\ IdleDelta /\ IdleRef /\ IdlePack /\ IdleAdv /\ IdleObj /\ IdleStore /\ IdleBranch /\ IdleWalk

SpecXchg == InitXchg /\ [][NextXchg]_vars

InitObj == StartObj /\ IdlePkt /\ IdleHdr /\ IdleDelta /\ IdleRef /\ IdlePack /\ IdleAdv /\ IdleXchg /\ IdleStore /\ IdleBranch /\ IdleWalk

SpecObj == InitObj /\ [][NextObj]_vars

InitStore == StartStore /\ IdlePkt /\ IdleHdr /\ IdleDelta /\ IdleRef /\ IdlePack /\ IdleAdv /\ IdleXchg /\ IdleObj /\ IdleBranch /\ IdleWalk

SpecStore == InitStore /\ [][NextStore]_vars

InitBranch == StartBranch /\ IdlePkt /\ IdleHdr /\ IdleDelta /\ IdleRef /\ IdlePack /\ IdleAdv /\ IdleXchg /\ IdleObj /\ IdleStore /\ IdleWalk

SpecBranch == InitBranch /\ [][NextBranch]_vars

InitWalk == StartWalk /\ IdlePkt /\ IdleHdr /\ IdleDelta /\ IdleRef /\ IdlePack /\ IdleAdv /\ IdleXchg /\ IdleObj /\ IdleStore /\ IdleBranch

SpecWalk == InitWalk /\ [][NextWalk]_vars

\* The call runs on: an iteration that can begin does begin.
SpecWalkFair == SpecWalk /\ WF_vars(ResolveStep)

-----------------------------------------------------------------------------
(* Claims about pkt-line framing                                           *)

NoNulNoNewline(line) == \A i \in 1..Len(line) : line[i] # 0 /\ line[i] # NL

PktInput == InputLines(pktLines, pktFill)

DeliveredWhole == pktCut = Len(create_pkt_line(PktInput))

FitsLengthPrefix(line) == Len(line) + 1 + 4 <= U16Max

\* C1 (as stated): for every sequence L of lines without NUL or newline,
\* parse_pkt_line(create_pkt_line(L)) succeeds and returns exactly L.
C1_RoundTripAnyLine ==
    (/\ pktPc = "parsed"
     /\ DeliveredWhole
     /\ \A i \in 1..Len(PktInput) : NoNulNoNewline(PktInput[i]))
    => pktResult = PktOk(PktInput)

\* C1 (amended): the round trip holds for every sequence L of lines without
\* NUL or newline whose packets fit the 4-hex-digit length prefix, i.e. each
\* line is at most 65530 bytes long.
C1_RoundTrip ==
    (/\ pktPc = "parsed"
     /\ DeliveredWhole
     /\ \A i \in 1..Len(PktInput) :
            NoNulNoNewline(PktInput[i]) /\ FitsLengthPrefix(PktInput[i]))
    => pktResult = PktOk(PktInput)

\* A whole buffer of two lines, the first of them empty, has been parsed.
C1_Witness ==
    /\ pktPc = "parsed"
    /\ DeliveredWhole
    /\ Len(pktLines) = 2
    /\ pktLines[1] = <<>>
    /\ Len(pktLines[2]) = MaxLineLen
    /\ pktResult = PktOk(pktLines)

\* The buffer ends 1..3 bytes into a length prefix that follows j whole
\* packets (the prefix of the next line's packet, or of the flush packet).
TruncatedLengthPrefix ==
    /\ \A i \in 1..Len(PktInput) : FitsLengthPrefix(PktInput[i])
    /\ \E j \in 0..Len(PktInput) :
        pktCut - Boundary(PktInput, j) \in 1..3

\* C10: parse_pkt_line returns an error when the input ends in a truncated
\* length prefix (1..3 bytes where a length prefix is expected).
C10_TruncatedLengthFails ==
    (pktPc = "parsed" /\ TruncatedLengthPrefix) => ~pktResult.ok

\* The length prefix at position p of the delivered buffer is four hex
\* digits whose value L is at least 4, and the packet reaches beyond the
\* end of the buffer.
OverrunAt(p) ==
    /\ p + 4 <= Len(pktData)
    /\ IsHexU16(SubSeq(pktData, p + 1, p + 4))
    /\ HexValue(SubSeq(pktData, p + 1, p + 4)) >= 4
    /\ p + HexValue(SubSeq(pktData, p + 1, p + 4)) > Len(pktData)

\* The positions at which the parser reads a length prefix: the ends of
\* the whole packets that precede it.
PrefixPositions ==
    {Boundary(PktInput, j) : j \in 0..Len(PktInput)}

\* C11: if a length prefix L >= 4 is read at position p and p + L is
\* greater than the input length, parse_pkt_line returns an error and no
\* partial line list.
C11_OverrunIsError ==
    (/\ pktPc = "parsed"
     /\ \A i \in 1..Len(PktInput) : FitsLengthPrefix(PktInput[i])
     /\ \E p \in PrefixPositions : OverrunAt(p))
    => (~pktResult.ok /\ pktResult.lines = <<>>)

\* The buffer was cut inside the second of two packets, after its length
\* prefix, and the call failed although the first packet was whole.
C11_Witness ==
    /\ pktPc = "parsed"
    /\ Len(pktLines) = 2
    /\ pktFill = 0
    /\ pktCut >= Boundary(pktLines, 1) + 4
    /\ pktCut < Boundary(pktLines, 2)
    /\ OverrunAt(Boundary(pktLines, 1))
    /\ pktResult = PktErr("Packet extends beyond data")

\* A payload with at most one trailing newline removed.
StripOneNewline(payload) ==
    IF Len(payload) > 0 /\ payload[Len(payload)] = NL
    THEN SubSeq(payload, 1, Len(payload) - 1)
    ELSE payload

\* The payload of the packet create_pkt_line makes of a line.
PayloadOf(line) == line \o <<NL>>

\* C12: parse_pkt_line strips at most one trailing newline from each
\* packet payload: a payload ending in k >= 2 newlines is returned with
\* k - 1 trailing newlines, one without a trailing newline unchanged.
C12_StripsOneNewline ==
    (/\ pktPc = "parsed"
     /\ DeliveredWhole
     /\ \A i \in 1..Len(PktInput) : FitsLengthPrefix(PktInput[i]))
    => pktResult =
        PktOk([i \in 1..Len(PktInput) |-> StripOneNewline(PayloadOf(PktInput[i]))])

-----------------------------------------------------------------------------
(* Claims about the type and size header                                   *)

\* C9: for every type id in 1..7 and every size in {0, 15, 16, 255, 256,
\* 65535, 65536}, parse_type_and_size applied to the bytes emitted by
\* write_type_and_size(type, size) returns exactly (type, size) and consumes
\* exactly the emitted bytes (what follows them is left as the remainder).
C9_HeaderSymmetry ==
    (hdrPc = "parsed" /\ hdrType \in 1..7 /\ hdrSize \in SymmetrySizes)
    => hdrParsed = HdrOk(hdrType, hdrSize, hdrTail)

\* A three-byte header (size 65536) followed by a byte with the high bit
\* set has been read back.
C9_Witness ==
    /\ hdrPc = "parsed"
    /\ hdrType = 7
    /\ hdrSize = 65536
    /\ Len(write_type_and_size(hdrType, hdrSize)) = 3
    /\ hdrTail = <<255>>
    /\ hdrParsed.ok

-----------------------------------------------------------------------------
(* Claims about delta application                                          *)

\* C4: apply_delta returns the concatenation, in instruction order, of the
\* base ranges named by the copy instructions and the literals of the
\* insert instructions, a copy consuming its opcode, its offset bytes and
\* its size bytes; "hello world" with copy[0,5] + insert(" there") +
\* copy[5,6] and result_size 17 yields "hello there world".
C4_DeltaConcatenates ==
    \A w \in WellFormedDeltas :
        (/\ deltaPc = "applied"
         /\ deltaBase = w.base
         /\ deltaBytes = EncodeDelta(w.base, Len(Expand(w.base, w.instrs)), w.instrs))
        => deltaResult = DeltaOk(Expand(w.base, w.instrs))

\* The declared result_size of the delta, as apply_delta reads it.
DeclaredResultSize ==
    read_varint(SubSeq(deltaBytes, read_varint(deltaBytes).consumed + 1, Len(deltaBytes)))

\* The bytes the instruction loop produced, when it ran to the end of the
\* delta.
Produced ==
    DeltaLoop(deltaBase, deltaBytes,
              read_varint(deltaBytes).consumed + DeclaredResultSize.consumed, <<>>,
              deltaChecks)

-----------------------------------------------------------------------------
(* Claims about the reference handler                                      *)

\* The name reached from n after k hops along symbolic refs (the chain
\* stays where it is once it leaves the map or reaches a non-symbolic ref).
RECURSIVE Hop(_, _, _)
Hop(map, n, k) ==
    IF k = 0 THEN n
    ELSE LET p == Hop(map, n, k - 1) IN
         IF p \in DOMAIN map /\ map[p].is_symbolic THEN map[p].target ELSE p

IsSymbolicAt(map, n) == n \in DOMAIN map /\ map[n].is_symbolic

IsDirectAt(map, n) == n \in DOMAIN map /\ ~map[n].is_symbolic

\* The chain from n makes k symbolic hops and then stands on a
\* non-symbolic ref.
EndsAfter(map, n, k) ==
    /\ \A i \in 0..(k - 1) : IsSymbolicAt(map, Hop(map, n, i))
    /\ IsDirectAt(map, Hop(map, n, k))

\* The chain from n makes j symbolic hops and is then back on a name it
\* has already visited.
RevisitsAfter(map, n, j) ==
    /\ j >= 1
    /\ \A i \in 0..(j - 1) : IsSymbolicAt(map, Hop(map, n, i))
    /\ \E i \in 0..(j - 1) : Hop(map, n, i) = Hop(map, n, j)

MapSize(map) == Cardinality(DOMAIN map)

\* C6: after any sequence of add_ref, set_head, update_ref, delete_ref,
\* create_branch, create_tag and import_refs, every symbolic ref in the map
\* starts a chain that ends at a non-symbolic ref without visiting any name
\* twice.
C6_NoCycleNoDangling ==
    \A n \in DOMAIN refs :
        refs[n].is_symbolic => \E k \in 1..MapSize(refs) : EndsAfter(refs, n, k)

\* C7: resolve_ref(name) follows symbolic refs through a chain of any
\* length and returns the target of the first non-symbolic ref it reaches.
C7_ResolveFollowsChain ==
    refResult.op = "resolve_ref" =>
        \A k \in 0..MapSize(refs) :
            EndsAfter(refs, refResult.name, k)
            => refResult.result = RefOk(refs[Hop(refs, refResult.name, k)].target)

\* HEAD -> refs/heads/dev -> refs/heads/main -> object id has been resolved
\* from HEAD.
C7_Witness ==
    /\ refResult.op = "resolve_ref"
    /\ refResult.name = Head_
    /\ Head_ \in DOMAIN refs /\ refs[Head_] = GitRef(Head_, DevRef, TRUE)
    /\ DevRef \in DOMAIN refs /\ refs[DevRef] = GitRef(DevRef, MainRef, TRUE)
    /\ MainRef \in DOMAIN refs /\ refs[MainRef] = GitRef(MainRef, OidA, FALSE)
    /\ refResult.result = RefOk(OidA)

\* C8: when the symbolic chain starting at a name revisits a name (a cycle
\* of any length, a ref symbolic to itself included), resolve_ref on that
\* name returns a cycle error and never a target.
C8_CycleIsError ==
    refResult.op = "resolve_ref" =>
        ((\E j \in 1..MapSize(refs) : RevisitsAfter(refs, refResult.name, j))
         => refResult.result = RefErr("Circular reference detected"))

\* HEAD -> refs/heads/main -> refs/heads/dev -> refs/heads/main has been
\* resolved from HEAD.
C8_Witness ==
    /\ refResult.op = "resolve_ref"
    /\ refResult.name = Head_
    /\ Head_ \in DOMAIN refs /\ refs[Head_] = GitRef(Head_, MainRef, TRUE)
    /\ MainRef \in DOMAIN refs /\ refs[MainRef] = GitRef(MainRef, DevRef, TRUE)
    /\ DevRef \in DOMAIN refs /\ refs[DevRef] = GitRef(DevRef, MainRef, TRUE)
    /\ ~refResult.result.ok

-----------------------------------------------------------------------------
(* Claims about pack files                                                 *)

\* The (type, content) pairs of a list of objects and of a list of entries
TypeAndContent(objects) ==
    [i \in 1..Len(objects) |-> <<objects[i].obj_type, objects[i].content>>]

TypeAndData(entries) ==
    [i \in 1..Len(entries) |-> <<entries[i].object_type, entries[i].data>>]

\* C2: for every list of non-delta objects with size = len(content),
\* parse_pack(create_pack(objects)) succeeds and returns one entry per
\* object, in order, with the same (type, content) pair; after one object
\* is parsed the cursor stands at the first byte of the next object record,
\* not at the end of the buffer.
C2_PackRoundTrip ==
    (packPc = "parsed" /\ packChanged = 0) =>
        /\ packResult.ok
        /\ TypeAndData(packResult.entries) = TypeAndContent(packObjects)
        /\ Len(packObjects) >= 2 =>
            parse_object(parse_header(packData).rest).rest
                = PackRecords(Tail(packObjects)) \o Sha1(PackBody(packObjects))

\* C3: changing any single byte of the body of a pack produced by
\* create_pack makes parse_pack fail with a checksum error; parse_pack never
\* returns entries for a pack whose trailer is not the SHA-1 of the
\* preceding bytes.
TrailerMatches(data) ==
    /\ Len(data) >= 20
    /\ SubSeq(data, Len(data) - 19, Len(data)) = Sha1(SubSeq(data, 1, Len(data) - 20))

C3_ChangedByteIsChecksumError ==
    packPc = "parsed" =>
        /\ packChanged # 0 =>
            (~packResult.ok /\ packResult.err = "Pack file checksum verification failed")
        /\ ~TrailerMatches(packData) => ~packResult.ok

\* The version field of the pack handed to parse_pack is not 2.
VersionIsNotTwo ==
    /\ Len(packData) >= 12
    /\ SubSeq(packData, 1, 4) = PackSignature
    /\ SubSeq(packData, 5, 8) # Be32(2)

\* C13: parsing a pack whose header version field is not 2 fails: neither
\* parse_header nor parse_pack returns a header or entries for it.
C13_VersionMustBeTwo ==
    (packPc = "parsed" /\ VersionIsNotTwo) =>
        /\ ~parse_header(packData).ok
        /\ ~packResult.ok

-----------------------------------------------------------------------------
(* Claims about the ref advertisement                                      *)

\* "<hash> <refname>" of the i-th ref handed to create_ref_advertisement
HashAndName(i) == advRefs[i][2] \o <<32>> \o advRefs[i][1]

\* The ref part of the first packet
FirstRefPart ==
    IF Len(advRefs) = 0 THEN ZeroId \o <<32>> \o CapabilitiesPlaceholder
    ELSE HashAndName(1)

\* The advertisement is a flush-terminated stream of max(1, len(refs))
\* packets with the ref part, NUL and the space-joined capabilities first
\* and the plain refs after it, and parse_capabilities on the first parsed
\* line gives the ref part and the capabilities back.
AdvertisementAsSpecified ==
    /\ Len(advData) >= 4
    /\ SubSeq(advData, Len(advData) - 3, Len(advData)) = FlushPkt
    /\ advLines.ok
    /\ Len(advLines.lines) = (IF Len(advRefs) = 0 THEN 1 ELSE Len(advRefs))
    /\ advLines.lines[1] = FirstRefPart \o <<0>> \o Join(advCaps, <<32>>)
    /\ \A i \in 2..Len(advRefs) : advLines.lines[i] = HashAndName(i)
    /\ advParsed = <<FirstRefPart, advCaps>>

\* C16 (as stated): for every ref list and capability list the
\* advertisement is as specified and parse_capabilities on the first parsed
\* line returns the ref part and exactly the given capabilities.
C16_AdvertisementAnyInput ==
    advPc = "parsed" => AdvertisementAsSpecified

\* Ref names and hashes hold no NUL and no newline, every capability is a
\* non-empty string without whitespace, and every line fits the 4-hex-digit
\* length prefix.
WellFormedAdvInput ==
    /\ \A i \in 1..Len(advRefs) :
        NoNulNoNewline(advRefs[i][1]) /\ NoNulNoNewline(advRefs[i][2])
    /\ \A i \in 1..Len(advCaps) :
        Len(advCaps[i]) > 0 /\ \A k \in 1..Len(advCaps[i]) : ~IsWhitespace(advCaps[i][k])
    /\ \A i \in 1..Len(AdvLines(advRefs, advCaps)) :
        FitsLengthPrefix(AdvLines(advRefs, advCaps)[i])

\* C16 (amended): the same holds for every ref list whose names and hashes
\* hold no NUL and no newline and every list of non-empty capabilities
\* without whitespace, the lines fitting the length prefix.
C16_Advertisement ==
    (advPc = "parsed" /\ WellFormedAdvInput) => AdvertisementAsSpecified

\* Two refs and two capabilities have been advertised and read back.
C16_Witness ==
    /\ advPc = "parsed"
    /\ WellFormedAdvInput
    /\ Len(advRefs) = 2
    /\ advRefs[1] # advRefs[2]
    /\ Len(advCaps) = 2
    /\ advParsed = <<HashAndName(1), advCaps>>
    /\ advLines.lines[2] = HashAndName(2)

-----------------------------------------------------------------------------
(* Claims about the fetch and push exchanges                               *)

\* The wants of the client's request, as the server reads them
RequestWants ==
    LET parsed == parse_pkt_line(RequestBytes(xchgRequest)) IN
    IF parsed.ok THEN parse_want_have(parsed.lines).wants ELSE <<>>

\* The exchange ended with a successful answer, not with an error response.
DoneWithoutError ==
    xchgDone /\ \A i \in 1..Len(xchgSent) : xchgSent[i].kind # "error"

\* The k-th message sent is of one of the kinds.
SentKind(k, kinds) == k \in 1..Len(xchgSent) /\ xchgSent[k].kind \in kinds

\* C14: a fetch exchange answers the client's want/have lines with ACK/NAK
\* rounds and then sends a pack: an exchange with at least one want does
\* not reach Done without passing through SendPack.
C14_FetchSendsPack ==
    (/\ xchgService = "git-upload-pack"
     /\ DoneWithoutError
     /\ Len(RequestWants) >= 1)
    => \E j, k \in 1..Len(xchgSent) :
        /\ j < k
        /\ SentKind(j, {"ack", "nak"})
        /\ SentKind(k, {"pack"})

\* C15: in a push exchange the report status ("unpack ok") is sent only
\* after the received pack has been unpacked and the ref commands applied;
\* it is never sent for a pack that failed to parse.
C15_ReportOnlyForParsedPack ==
    (/\ xchgService = "git-receive-pack"
     /\ \E k \in 1..Len(xchgSent) : SentKind(k, {"report"}))
    => parse_pack(xchgRequest.pack).ok

-----------------------------------------------------------------------------
(* Claims about objects                                                    *)

\* The hash of the header "<type> <decimal length>" + NUL followed by the
\* content, in hex.
HashOfHeaderAndContent(obj_type, content) ==
    HexEncode(Sha1(TypeStr(obj_type) \o <<32>> \o Decimal(Len(content)) \o <<0>>
                   \o content))

\* C17: every GitObject returned by parse_object, create_blob,
\* create_commit or create_tree has id = calculate_hash(obj_type, content)
\* and size = len(content), calculate_hash being the hash of the header
\* "<type> <decimal length>" + NUL followed by the content; the hashing
\* never fails.
C17_IdIsHashOfContent ==
    objResult.op # "none" =>
        /\ objResult.ok
        /\ objResult.object.id =
            HashOfHeaderAndContent(objResult.object.obj_type, objResult.object.content)
        /\ objResult.object.id =
            calculate_hash(objResult.object.obj_type, objResult.object.content)
        /\ objResult.object.size = Len(objResult.object.content)

\* A commit with a parent and a message has been made into an object
\* whose length takes two decimal digits.
C17_Witness ==
    /\ objResult.op = "create_commit"
    /\ objResult.ok
    /\ Len(objInput.commit.parents) = 1
    /\ Len(objInput.commit.message) > 0
    /\ objResult.object.content = serialize_commit(objInput.commit)
    /\ objResult.object.size >= 10
    /\ Len(objResult.object.id) = 40

\* The value of a string of decimal digits
RECURSIVE DecimalValue(_)
DecimalValue(digits) ==
    IF Len(digits) = 0 THEN 0
    ELSE DecimalValue(SubSeq(digits, 1, Len(digits) - 1)) * 10
         + (digits[Len(digits)] - CH0)

\* The Unix timestamp embedded in an author or committer line: the word
\* before the offset.
EmbeddedTimestamp(identity) ==
    LET words == split_whitespace(identity) IN
    DecimalValue(words[Len(words) - 1])

\* C18: parse_commit sets author_date and commit_date to the Unix timestamp
\* embedded in the author and committer lines, so parsing the same commit
\* bytes twice, at different wall-clock times, yields the same dates.
C18_DatesFromCommit ==
    /\ \A i \in 1..Len(objCommits) :
        /\ objCommits[i].author_date = EmbeddedTimestamp(objCommits[i].author)
        /\ objCommits[i].commit_date = EmbeddedTimestamp(objCommits[i].committer)
    /\ Len(objCommits) = 2 =>
        /\ objCommits[1].author_date = objCommits[2].author_date
        /\ objCommits[1].commit_date = objCommits[2].commit_date

-----------------------------------------------------------------------------
(* Claims about the ref store                                              *)

\* C19: under any interleaving of store_ref, create_branch and
\* create_lightweight_tag on the same repository, table git_ref never holds
\* two rows with the same (repository, name): each name has at most one
\* target.
C19_OneRowPerName ==
    \A r, q \in gitRefRows :
        (r.repository_id = q.repository_id /\ r.name = q.name) => r = q

\* Two tasks both found no ref of a name and went on to insert it: the
\* row of one is in the table, and the insert of the other was rejected.
C19_Witness ==
    \E u \in DOMAIN storeCalls :
        /\ storeCalls[u].pc = "idle"
        /\ storeCalls[u].result = "DbErr: unique"
        /\ \E r \in gitRefRows : r.id[1] # u

-----------------------------------------------------------------------------
(* Claims about the default branch                                         *)

\* HEAD is a symbolic ref to refs/heads/<b> whose chain ends at a
\* non-symbolic ref: HEAD resolves, to a branch.
HeadDesignatesBranch ==
    /\ Head_ \in DOMAIN branchRefs
    /\ branchRefs[Head_].is_symbolic
    /\ StartsWithRefsHeads(branchRefs[Head_].target)
    /\ \E k \in 1..MapSize(branchRefs) : EndsAfter(branchRefs, Head_, k)

BranchExists(b) == (<<"refs", "heads">> \o b) \in DOMAIN branchRefs

\* C20: get_default_branch returns the branch HEAD designates when HEAD
\* resolves to a branch; otherwise the first existing branch among main,
\* master, develop, in that order; otherwise None.  When it returns
\* Some(b), refs/heads/b is in the map.
C20_DefaultBranch ==
    branchResult.asked =>
        /\ HeadDesignatesBranch =>
            branchResult.value = SomeBranch(AfterRefsHeads(branchRefs[Head_].target))
        /\ ~HeadDesignatesBranch =>
            branchResult.value =
                IF BranchExists(<<"main">>) THEN SomeBranch(<<"main">>)
                ELSE IF BranchExists(<<"master">>) THEN SomeBranch(<<"master">>)
                ELSE IF BranchExists(<<"develop">>) THEN SomeBranch(<<"develop">>)
                ELSE NoneBranch
        /\ branchResult.value.some => BranchExists(branchResult.value.branch)

\* HEAD points at a branch that does not exist, main does not exist either,
\* and the answer was master, the first conventional branch there is.
C20_Witness ==
    /\ branchResult.asked
    /\ Head_ \in DOMAIN branchRefs
    /\ branchRefs[Head_] = GitRef(Head_, DevRef, TRUE)
    /\ DevRef \notin DOMAIN branchRefs
    /\ MainRef \notin DOMAIN branchRefs
    /\ MasterRef \in DOMAIN branchRefs
    /\ DevelopRef \in DOMAIN branchRefs
    /\ branchResult.value = SomeBranch(<<"master">>)

-----------------------------------------------------------------------------
(* Claims about the layout of a created pack                               *)

\* The records of objects[i..], each the type-and-size bytes followed by
\* the zlib stream of the content
RECURSIVE RecordsFrom(_, _)
RecordsFrom(objects, i) ==
    IF i > Len(objects) THEN <<>>
    ELSE write_type_and_size(TypeIdOf(objects[i].obj_type), objects[i].size)
         \o ZlibCompress(objects[i].content)
         \o RecordsFrom(objects, i + 1)

Unchanged == packPc \in {"created", "parsed", "parsed_simple"} /\ packChanged = 0

-----------------------------------------------------------------------------
(* Claims about malformed deltas.  With one-byte base_size and result_size *)
(* the first instruction is the third byte of the delta.                   *)

OneByteSizes ==
    /\ Len(deltaBytes) >= 3
    /\ deltaBytes[1] < 128
    /\ deltaBytes[2] < 128

FirstInstruction == deltaBytes[3]

\* The offset and size bytes a copy instruction announces
CopyOperandCount(instruction) ==
    Cardinality({i \in 0..6 : BitAnd(instruction, Shl(1, i)) # 0})

\* C22: a delta with a 0 byte at an instruction position is rejected, even
\* when the other instructions produce exactly result_size bytes.
C22_ZeroInstructionIsError ==
    (deltaPc = "applied" /\ OneByteSizes /\ FirstInstruction = 0)
        => deltaResult.kind = "err"

\* The first instruction is a copy with fewer offset and size bytes after
\* it than it announces, or an insert of more bytes than remain.
FirstInstructionTruncated ==
    /\ OneByteSizes
    /\ FirstInstruction # 0
    /\ Len(deltaBytes) - 3 <
            (IF FirstInstruction >= 128 THEN CopyOperandCount(FirstInstruction)
             ELSE FirstInstruction)

\* C23: a truncated delta makes apply_delta return an error value: it does
\* not abort on an index out of bounds, and a truncated insert is not
\* skipped and its bytes read as instructions.
C23_TruncatedIsError ==
    (deltaPc = "applied" /\ FirstInstructionTruncated) => deltaResult.kind = "err"

\* The first instruction is a complete copy (opcode 0x90: a size byte;
\* opcode 0x91: an offset byte and a size byte) of a range that ends after
\* the base.
FirstCopyOutOfRange ==
    /\ OneByteSizes
    /\ \/ /\ FirstInstruction = 144
          /\ Len(deltaBytes) >= 4
          /\ deltaBytes[4] # 0
          /\ deltaBytes[4] > Len(deltaBase)
       \/ /\ FirstInstruction = 145
          /\ Len(deltaBytes) >= 5
          /\ deltaBytes[5] # 0
          /\ deltaBytes[4] + deltaBytes[5] > Len(deltaBase)

\* C24: a copy instruction naming a range outside the base makes
\* apply_delta fail; it is never skipped.
C24_CopyOutOfRangeFails ==
    (deltaPc = "applied" /\ FirstCopyOutOfRange) => deltaResult.kind # "ok"

-----------------------------------------------------------------------------
(* Claims about the flush packet                                           *)

\* The buffer is the packets of the caller's lines, the flush packet, and
\* possibly bytes after it.
FlushThenMore ==
    /\ pktFill = 0
    /\ pktCut >= Len(create_pkt_line(pktLines))
    /\ SubSeq(pktData, 1, Len(create_pkt_line(pktLines))) = create_pkt_line(pktLines)

\* C25: parse_pkt_line stops at the first flush packet: it returns one line
\* per packet before the flush, in order (the line itself when it holds no
\* newline), and the bytes after the flush neither change the result nor
\* cause an error; parse_pkt_line("0006a\n0000") = ["a"].
C25_StopsAtFlush ==
    /\ (pktPc = "parsed" /\ FlushThenMore) =>
        /\ pktResult.ok
        /\ Len(pktResult.lines) = Len(pktLines)
        /\ \A i \in 1..Len(pktLines) :
            NoNulNoNewline(pktLines[i]) => pktResult.lines[i] = pktLines[i]
        /\ pktResult = parse_pkt_line(create_pkt_line(pktLines))
    /\ (pktPc = "parsed" /\ pktData = <<CH0, CH0, CH0, CH0 + 6, LoA, NL, CH0, CH0, CH0, CH0>>)
        => pktResult = PktOk(<<<<LoA>>>>)

\* One line, a flush, and then a whole packet and another flush have been
\* parsed to the one line.
C25_Witness ==
    /\ pktPc = "parsed"
    /\ pktLines = <<<<LoA>>>>
    /\ pktData = <<CH0, CH0, CH0, CH0 + 6, LoA, NL, CH0, CH0, CH0, CH0,
                   CH0, CH0, CH0, CH0 + 5, LoA, CH0, CH0, CH0, CH0>>
    /\ pktResult = PktOk(<<<<LoA>>>>)

-----------------------------------------------------------------------------
(* Claims about the termination of resolve_ref                             *)

\* C26: resolve_ref terminates for every ref map and start name: it returns
\* a target or an error after at most (number of refs + 1) iterations of
\* its loop, having visited at most that many names, cycles included.
C26_ResolveTerminates ==
    /\ [](/\ walkIterations <= MapSize(walkRefs) + 1
          /\ Cardinality(walkVisited) <= MapSize(walkRefs) + 1
          /\ (walkResult # Running /\ walkResult.err # "idle")
                => walkResult = resolve_ref(walkRefs, walkName))
    /\ <>(walkResult # Running)

\* HEAD -> refs/heads/main -> HEAD: the call returned the cycle error in
\* its third iteration.
C26_Witness ==
    /\ walkName = Head_
    /\ Head_ \in DOMAIN walkRefs /\ walkRefs[Head_] = GitRef(Head_, MainRef, TRUE)
    /\ MainRef \in DOMAIN walkRefs /\ walkRefs[MainRef] = GitRef(MainRef, Head_, TRUE)
    /\ walkIterations = 3
    /\ walkVisited = {Head_, MainRef}
    /\ walkResult = RefErr("Circular reference detected")

-----------------------------------------------------------------------------
(* Claims about the commit round trip                                      *)

NoNewline(str) == \A i \in 1..Len(str) : str[i] # NL

\* C27: for every Commit whose tree, parents, author and committer hold no
\* newline, parse_commit(serialize_commit(c)) has the same tree, parents
\* (in order), author, committer and message, for messages that end with a
\* newline, are empty, or contain blank lines too.
C27_CommitRoundTrip ==
    \A i \in 1..Len(objCommits) :
        (/\ NoNewline(objInput.commit.tree)
         /\ \A k \in 1..Len(objInput.commit.parents) :
                NoNewline(objInput.commit.parents[k])
         /\ NoNewline(objInput.commit.author)
         /\ NoNewline(objInput.commit.committer))
        => /\ objCommits[i].tree = objInput.commit.tree
           /\ objCommits[i].parents = objInput.commit.parents
           /\ objCommits[i].author = objInput.commit.author
           /\ objCommits[i].committer = objInput.commit.committer
           /\ objCommits[i].message = objInput.commit.message

-----------------------------------------------------------------------------
(* Claims about what the ref operations leave unchanged                    *)

\* All refs but the named one are the same after the step.
OthersUnchanged(name) ==
    /\ DOMAIN refs' = DOMAIN refs
    /\ \A n \in DOMAIN refs : n # name => refs'[n] = refs[n]

\* C28: update_ref on an existing ref changes only that ref's target;
\* update_ref or delete_ref on a name that is not in the map, and
\* create_branch or create_tag on a name that exists, return an error and
\* leave the map unchanged.
C28_RefFrame ==
    [][LET call == refResult' IN
       /\ (call.op = "update_ref" /\ call.name \in DOMAIN refs) =>
            /\ call.result.ok
            /\ OthersUnchanged(call.name)
            /\ refs'[call.name].name = refs[call.name].name
            /\ refs'[call.name].is_symbolic = refs[call.name].is_symbolic
       /\ (call.op \in {"update_ref", "delete_ref"} /\ call.name \notin DOMAIN refs) =>
            (~call.result.ok /\ refs' = refs)
       /\ (call.op = "create_branch" /\ (<<"refs", "heads">> \o call.name) \in DOMAIN refs) =>
            (~call.result.ok /\ refs' = refs)
       /\ (call.op = "create_tag" /\ (<<"refs", "tags">> \o call.name) \in DOMAIN refs) =>
            (~call.result.ok /\ refs' = refs)
      ]_vars

\* update_ref has succeeded on a symbolic HEAD in a map of three refs.
C28_Witness ==
    /\ refResult = Called("update_ref", Head_, RefOk(<<>>))
    /\ MapSize(refs) = 3
    /\ refs[Head_].is_symbolic
    /\ refs[Head_].name = Head_

-----------------------------------------------------------------------------
(* Claims about create_branch in the storage layer                         *)

\* The row the last call of task t inserted, if it is in the table
RowOfLastCall(t) == {r \in gitRefRows : r.id = <<t, storeCalls[t].calls>>}

\* C29: GitOperations::create_branch is all-or-nothing: when it returns an
\* error (the branch exists, or the start commit is not in the object
\* store), the stored refs are as before the call: no ref the call
\* inserted is in the table.
C29_CreateBranchAllOrNothing ==
    \A t \in DOMAIN storeCalls :
        (/\ storeCalls[t].pc = "idle"
         /\ storeCalls[t].result \in {"already exists", "Commit not found"})
        => RowOfLastCall(t) = {}

-----------------------------------------------------------------------------
(* Claims about the bytes of one header                                    *)

\* The bytes write_type_and_size pushed, without what follows the header
HeaderWritten == SubSeq(hdrBytes, 1, Len(hdrBytes) - Len(hdrTail))

Type3Written(size) == hdrPc \in {"written", "parsed"} /\ hdrType = 3 /\ hdrSize = size

====
